---- MODULE Spec2Model ----
(***************************************************************************)
(* Model of the stateful-agent runtime: the messages table and its         *)
(* transactions (src/agent/db.py), the turn orchestrator chat()            *)
(* (src/agent/graph.py) with the LangGraph checkpointer, the history       *)
(* window of load_messages, and the versioned core-memory blocks           *)
(* (src/agent/core_memory.py).                                             *)
(*                                                                         *)
(* Texts are sequences of characters, so that len(text), the timestamp     *)
(* prefix and the reasoning prefix are computed as the code computes them. *)
(* An instant is abstracted to the number of the agent-timezone day it     *)
(* falls on: the only comparison the code makes is created_at >= midnight. *)
(***************************************************************************)
EXTENDS Integers, Sequences, FiniteSets, TLC

VARIABLES
    messages,             \* table messages: the committed rows (a set of records)
    txrows,               \* per turn: rows INSERTed by its open transaction, not yet committed
    checkpoint,           \* SqliteSaver: thread_id -> the checkpointed message list
    today,                \* the current day in AGENT_TIMEZONE (the turns of Spec run within one day)
    enc,                  \* the tokeniser _trim_to_token_limit gets ("None": tiktoken is missing)
    pc,                   \* per turn: where chat() stands
    args,                 \* per turn: chat()'s arguments (thread_id, user_message)
    rows,                 \* per turn: what load_messages returned
    invoke_state,         \* per turn: the "messages" chat() hands to agent.invoke
    started,              \* per turn: the message list the workflow started from
    result,               \* per turn: result["messages"] of agent.invoke
    to_persist,           \* per turn: the tuples handed to append_messages
    next_idx,             \* per turn: append_messages' next_idx
    tx_now,               \* per turn: NOW() of its open transaction (its start time)
    err,                  \* per turn: the exception that ended the turn ("None": none)
    call,                 \* SpecLoad: the arguments of the one load_messages / trim call
    ret,                  \* SpecLoad: what that call returned
    core_memory,          \* table core_memory: block_type -> row or NoRow
    core_memory_history,  \* table core_memory_history: a set of rows, each with its id
    history_seq,          \* core_memory_history's SERIAL id counter
    system_instructions,  \* table system_instructions: the content of its one row
    nops,                 \* SpecCore: how many core-memory operations were called
    ops,                  \* SpecCore: the last two of them, newest last, each with its pre-state
    cron_jobs,            \* table cron_jobs: id -> row or NoJob
    cron_seq,             \* cron_jobs' SERIAL id counter
    scheduler,            \* _scheduler: whether it runs, and the jobs it holds, each with its trigger
    exec,                 \* per job id: where the execute_cron_job its trigger started stands
    cron_rows,            \* the job ids of the "[Cron: name]" user rows appended to thread "main"
    fires,                \* how many triggers have fired
    cron_op,              \* the operation that made the last step of SpecCron
    clock,                \* SpecBeat: time.time(), in minutes
    last_active,          \* SpecBeat: data/last_active.txt (None: no such file)
    beat_turn,            \* SpecBeat: per caller, the chat() turn it has in flight
    heartbeat,            \* SpecBeat: where run_heartbeat stands and what it returned
    beat_op,              \* SpecBeat: the chat() turn that ended in the last step, if one did
    wake,                 \* SpecWake: the waking-hours configuration, the hour, the last tick
    tg_server,            \* Telegram's side: the updates of the bot (update_id = position), the confirmed offset
    tg,                   \* the Telegram listener task: where _poll_loop stands, its offset, its batch
    tg_done,              \* per update_id: what the listener did with it
    dc,                   \* the Discord message on_message handled last, and what it did with it
    hindsight,            \* the episodic collaborator as the client finds it, and the last call to the client
    http,                 \* one POST /chat: what agent.invoke did, what chat() raised, the status answered
    daily_summaries,      \* table daily_summaries: a set of rows
    daily,                \* its SERIAL id counter, and per date the upserts so far and the content of the last
    conn,                 \* SpecCoreTx: per worker, the core-memory call it runs and its open transaction
    kept,                 \* SpecCoreTx: per block, the additions appended since its content was last replaced
    txops,                \* SpecCoreTx: how many core-memory calls were started
    timers,               \* SpecReminder: per reminder, where set_reminder stands and whether its timer fired
    active_reminders,     \* _active_reminders: the timers in the map, in insertion order
    listing               \* SpecReminder: the timers list_reminders listed last

vars == <<messages, txrows, checkpoint, today, enc, pc, args, rows, invoke_state,
          started, result, to_persist, next_idx, tx_now, err, call, ret,
          core_memory, core_memory_history, history_seq, system_instructions, nops, ops,
          cron_jobs, cron_seq, scheduler, exec, cron_rows, fires, cron_op,
          clock, last_active, beat_turn, heartbeat, beat_op,
          wake, tg_server, tg, tg_done, dc, hindsight, http, daily_summaries, daily,
          conn, kept, txops, timers, active_reminders, listing>>

chatVars == <<txrows, checkpoint, today, pc, args, rows, invoke_state, started, result,
              to_persist, next_idx, tx_now, err>>
loadVars == <<call, ret>>
coreVars == <<core_memory, core_memory_history, history_seq, system_instructions, nops, ops>>
cronVars == <<cron_jobs, cron_seq, scheduler, exec, cron_rows, fires, cron_op>>
tgVars == <<tg_server, tg, tg_done>>
dailyVars == <<daily_summaries, daily>>
txVars == <<conn, kept, txops>>
reminderVars == <<timers, active_reminders, listing>>
lateVars == <<txVars, reminderVars>>
edgeVars == <<wake, tgVars, dc, hindsight, http, dailyVars, lateVars>>
beatVars == <<clock, last_active, beat_turn, heartbeat, beat_op, edgeVars>>

\* Python's None: for an optional number <<>> against <<n>>; for a name the string
\* "None". A NULL reasoning and an empty one are both <<>>: the code tests only
\* its truth value.
None == <<>>
Some(v) == <<v>>
NoName == "None"

\* ------------------------------------------------------------------ bounds
NumTurns == 2          \* chat() calls in flight
MaxDay == 1            \* days the rows of a drawn table spread over (0..MaxDay)
MaxRows == 3           \* rows of a drawn messages table (SpecLoad)
MaxTokenCap == 3       \* largest max_tokens drawn (SpecLoad)
MaxOps == 5
MaxJobs == 2           \* cron jobs ever created (ids 1..MaxJobs)
MaxFires == 2          \* triggers that fire
MaxExchanges == 3       \* exchanges appended to thread "main" (SpecExclude)
MaxTxOps == 3           \* core-memory calls that run as transactions (SpecCoreTx)
MaxReminders == 3       \* set_reminder calls (SpecReminder)
MaxUpserts == 5         \* upsert_daily_summary calls
MaxCalls == 3           \* calls to the Hindsight client
MaxUpdates == 3         \* Telegram updates that ever arrive
MaxClock == 4          \* the minutes the clock of SpecBeat runs through            \* core-memory operations in a run (SpecCore)

\* --------------------------------------------------- configuration values
\* RECENT_MESSAGES_LIMIT and CONTEXT_WINDOW_TOKENS are read from the environment;
\* the model runs the orchestrator with small values of both.
RECENT_MESSAGES_LIMIT == 1
CONTEXT_WINDOW_TOKENS == 2
HEARTBEAT_SKIP_WINDOW_MINUTES == 2
GET_UPDATES_LIMIT == 2

Max(a, b) == IF a >= b THEN a ELSE b
Min(a, b) == IF a <= b THEN a ELSE b

\* A text of n characters.
Chars(n) == [i \in 1..n |-> "x"]

\* ------------------------------------------------------- table messages
\* The rows of a thread in "ORDER BY idx ASC".
RECURSIVE OrderByIdx(_)
OrderByIdx(S) ==
    IF S = {} THEN <<>>
    ELSE LET m == CHOOSE r \in S : \A q \in S : r.idx <= q.idx
         IN <<m>> \o OrderByIdx(S \ {m})

\* SELECT ... FROM messages WHERE thread_id = %s {role_filter} ORDER BY idx ASC
SelectMessages(tbl, thread_id, exclude_tool_messages, exclude_heartbeat) ==
    OrderByIdx({r \in tbl :
        /\ r.thread_id = thread_id
        /\ (exclude_tool_messages => r.role # "tool")
        /\ (exclude_heartbeat => r.role_display # "heartbeat")})

\* The dict load_messages builds of a row.
RowDict(r) ==
    [role |-> r.role, content |-> r.content, reasoning |-> r.reasoning,
     created_at |-> r.created_at, role_display |-> r.role_display]

DropFirst(s, n) == IF n >= Len(s) THEN <<>> ELSE SubSeq(s, n + 1, Len(s))

\* The window taking the later of the two boundaries.
WindowLater(out, limit, since) ==
    IF limit # None \/ since # None
    THEN LET same_day == IF since = None THEN {}
                         ELSE {i \in 1..Len(out) : out[i].created_at >= since[1]}
             today_start == IF same_day = {} THEN Len(out)
                            ELSE (CHOOSE i \in same_day : \A j \in same_day : i <= j) - 1
             last_n_start == IF limit # None THEN Max(0, Len(out) - limit[1]) ELSE Len(out)
         IN DropFirst(out, Max(today_start, last_n_start))
    ELSE out

\* The "today OR last N" window of load_messages.
Window(out, limit, since) ==
    IF limit # None \/ since # None
    THEN LET same_day == IF since = None THEN {}
                         ELSE {i \in 1..Len(out) : out[i].created_at >= since[1]}
             today_start == IF same_day = {} THEN Len(out)
                            ELSE (CHOOSE i \in same_day : \A j \in same_day : i <= j) - 1
             last_n_start == IF limit # None THEN Max(0, Len(out) - limit[1]) ELSE Len(out)
         IN DropFirst(out, Min(today_start, last_n_start))
    ELSE out

\* tiktoken is a library outside the repository: its count is stood in for by one
\* token per character pair, rounded up.
TiktokenLen(text) == (Len(text) + 1) \div 2

\* count_tokens with the fallback rounding up instead of down.
count_tokens_ceil(text, e) == IF e # NoName THEN TiktokenLen(text) ELSE (Len(text) + 3) \div 4

\* count_tokens of _trim_to_token_limit: "len(text) // 4" without a tokeniser.
count_tokens(text, e) == IF e # NoName THEN TiktokenLen(text) ELSE Len(text) \div 4

ReasoningOpen == <<"[", "R", "e", "a", "s", "o", "n", "i", "n", "g", ":", " ">>
ReasoningClose == <<"]", "\n", "\n">>

\* The text _trim_to_token_limit counts for a row.
TrimText(row) ==
    IF row.reasoning # <<>>
    THEN ReasoningOpen \o row.reasoning \o ReasoningClose \o row.content
    ELSE row.content

\* The break test without its "and result".
TrimStopsAlways(total, tokens, max_tokens, res) == total + tokens > max_tokens

\* The break test of _trim_to_token_limit's loop: "total + tokens > max_tokens and result".
TrimStops(total, tokens, max_tokens, res) == total + tokens > max_tokens /\ res # <<>>

RECURSIVE TrimLoop(_, _, _, _, _, _)
TrimLoop(rs, i, total, res, max_tokens, e) ==
    IF i = 0 THEN res
    ELSE LET tokens == count_tokens(TrimText(rs[i]), e)
         IN IF TrimStops(total, tokens, max_tokens, res) THEN res
            ELSE TrimLoop(rs, i - 1, total + tokens, <<rs[i]>> \o res, max_tokens, e)

trim_to_token_limit(rs, max_tokens, e) == TrimLoop(rs, Len(rs), 0, <<>>, max_tokens, e)

\* "if max_tokens and max_tokens > 0"
TrimApplies(max_tokens) == max_tokens # None /\ max_tokens[1] # 0 /\ max_tokens[1] > 0

WindowedHistory(tbl, thread_id, limit, since, exclude_tool_messages, exclude_heartbeat) ==
    LET sel == SelectMessages(tbl, thread_id, exclude_tool_messages, exclude_heartbeat)
    IN Window([i \in 1..Len(sel) |-> RowDict(sel[i])], limit, since)

load_messages(tbl, thread_id, limit, since, max_tokens, exclude_tool_messages, exclude_heartbeat, e) ==
    LET out == WindowedHistory(tbl, thread_id, limit, since, exclude_tool_messages,
                               exclude_heartbeat)
    IN IF TrimApplies(max_tokens) THEN trim_to_token_limit(out, max_tokens[1], e) ELSE out

\* ---------------------------------------------------------------- turns
Turns == 1..NumTurns
Threads == {"main", "side"}
Blocks == {"user", "identity", "ideaspace"}
\* No row of core_memory for a block type.
NoRow == [present |-> FALSE, content |-> <<>>, version |-> 0]

ChatInit ==
    /\ txrows = [t \in Turns |-> <<>>]
    /\ checkpoint = [th \in Threads |-> <<>>]
    /\ today = 0
    /\ pc = [t \in Turns |-> "idle"]
    /\ args = [t \in Turns |-> [thread_id |-> "main", user_message |-> <<>>]]
    /\ rows = [t \in Turns |-> <<>>]
    /\ invoke_state = [t \in Turns |-> <<>>]
    /\ started = [t \in Turns |-> <<>>]
    /\ result = [t \in Turns |-> <<>>]
    /\ to_persist = [t \in Turns |-> <<>>]
    /\ next_idx = [t \in Turns |-> 0]
    /\ tx_now = [t \in Turns |-> 0]
    /\ err = [t \in Turns |-> NoName]

LoadInit ==
    /\ call = [op |-> "none", limit |-> None, since |-> None, max_tokens |-> None]
    /\ ret = <<>>

CoreInit ==
    /\ core_memory = [b \in Blocks |-> NoRow]
    /\ core_memory_history = {}
    /\ history_seq = 1
    /\ system_instructions = <<>>
    /\ nops = 0
    /\ ops = <<>>

\* ------------------------------------------------------------ cron jobs
JobIds == 1..MaxJobs
\* _scheduler is None: no scheduler in this process.
NotStarted == [running |-> FALSE, jobs |-> {}]

\* No row of cron_jobs for an id.
NoJob == [present |-> FALSE, schedule_days |-> None, schedule_time |-> NoName,
          run_date |-> NoName, is_one_time |-> FALSE, status |-> "active",
          last_run_status |-> NoName, last_run_error |-> FALSE, run_count |-> 0]

\* No execute_cron_job running or finished for a job id.
NoExec == [pc |-> "idle", is_one_time |-> FALSE, fired_count |-> 0, fired_rows |-> 0]

\* What the last step of SpecCron was: a completed CRUD operation or
\* start_scheduler ("crud"), a step of an execute_cron_job ("exec") or its last
\* step ("done", with how it ended and what it had seen).
NoOp == [kind |-> "none", id |-> 0, step |-> NoName, outcome |-> NoName,
         is_one_time |-> FALSE, fired_count |-> 0, fired_rows |-> 0,
         status_before |-> "active", present_before |-> FALSE]

CronInit ==
    /\ cron_jobs = [j \in JobIds |-> NoJob]
    /\ cron_seq = 1
    /\ scheduler = NotStarted
    /\ exec = [j \in JobIds |-> NoExec]
    /\ cron_rows = <<>>
    /\ fires = 0
    /\ cron_op = NoOp

\* -------------------------------------------------------------- heartbeat
\* Who calls chat(): an ingress adapter (HTTP, Discord, Telegram, local) for
\* the user, and _run_cron_job_sync for a cron job.
BeatCallers == {"user", "cron"}
NoTurn == [pc |-> "idle", channel_type |-> NoName]

\* run_heartbeat not called yet.
NoBeat == [pc |-> "idle", result |-> NoName, seen |-> None, at |-> 0, during |-> FALSE,
           invoked |-> FALSE, today_count |-> 0, stored_message |-> NoName,
           user_row |-> NoName]

\* No chat() turn ended in the last step.
NoEnd == [caller |-> NoName, channel_type |-> NoName, ok |-> FALSE, before |-> None]

BeatInit ==
    /\ clock = 0
    /\ last_active = None
    /\ beat_turn = [c \in BeatCallers |-> NoTurn]
    /\ heartbeat = NoBeat
    /\ beat_op = NoEnd

\* No tick of the heartbeat scheduler yet; HEARTBEAT_WAKE_HOUR and
\* HEARTBEAT_SLEEP_HOUR at their defaults.
NoWake == [wake_hour |-> 5, sleep_hour |-> 22, hour |-> 0, last |-> "none"]

\* _poll_loop not started.
NoListener == [pc |-> "off", offset |-> None, batch |-> <<>>, after409 |-> FALSE,
               hot |-> FALSE, cancelled |-> FALSE, raised |-> FALSE]

\* on_message has handled nothing yet.
NoMessage == [channel |-> NoName, bot |-> FALSE, content |-> <<>>, did |-> "none"]

WakeInit == wake = NoWake

TelegramInit ==
    /\ tg_server = [updates |-> <<>>, confirmed |-> 1]
    /\ tg = NoListener
    /\ tg_done = [u \in 1..MaxUpdates |-> "none"]

DiscordInit == dc = NoMessage

\* No call to the Hindsight client yet: hindsight_client installed,
\* HINDSIGHT_ENABLED true, the server up with memories.
NoCall == [op |-> "none", server |-> NoName, raised |-> FALSE, out |-> NoName]
NoHindsight == [installed |-> TRUE, enabled |-> TRUE, server |-> "memories", calls |-> 0,
                last |-> NoCall]

HindsightInit == hindsight = NoHindsight

\* No exception: chat() returned.
NoExc == [type |-> NoName, text |-> {}, from |-> NoName]

\* No POST /chat yet.
NoRequest == [pc |-> "idle", failure |-> NoExc, raised |-> NoExc, status |-> 0]

HttpInit == http = NoRequest

SummaryDates == {"2030-01-01", "2030-01-02"}

\* The table as setup_schema creates it.
DailyInit ==
    /\ daily_summaries = {}
    /\ daily = [seq |-> 1, upserts |-> [day \in SummaryDates |-> 0],
                latest |-> [day \in SummaryDates |-> NoName]]

Workers == {"user turn", "cron turn"}

\* No core-memory call running: no connection open.
NoConn == [pc |-> "idle", op |-> NoName, block_type |-> NoName, content |-> <<>>,
           addition |-> <<>>, row |-> NoRow, history_id |-> 0, inserted |-> {}, written |-> <<>>,
           deleted |-> {}]

TxInit ==
    /\ conn = [w \in Workers |-> NoConn]
    /\ kept = [b \in Blocks |-> {}]
    /\ txops = 0

ReminderIds == 1..MaxReminders

\* No set_reminder called yet for a reminder.
NoTimer == [pc |-> "unset", fired |-> FALSE]

\* _active_reminders: dict[threading.Timer, str] = {}
ReminderInit ==
    /\ timers = [r \in ReminderIds |-> NoTimer]
    /\ active_reminders = <<>>
    /\ listing = <<>>

LateInit == TxInit /\ ReminderInit

EdgeInit ==
    /\ WakeInit
    /\ TelegramInit
    /\ DiscordInit
    /\ HindsightInit
    /\ HttpInit
    /\ DailyInit
    /\ LateInit

\* ------------------------------------- load_messages on drawn tables
\* The tables are those append_messages writes: idx 0..N-1 and created_at, the
\* insertion time, non-decreasing in idx.
Roles == {"user", "assistant", "tool"}
ContentLens == {2, 4, 9}

WindowKinds ==
    {[role |-> r, content |-> Chars(4), reasoning |-> <<>>, created_at |-> d] :
        r \in Roles, d \in 0..MaxDay}

TrimKinds ==
    {[role |-> "user", content |-> Chars(n), reasoning |-> <<>>, created_at |-> 0] :
        n \in ContentLens}
    \cup {[role |-> "assistant", content |-> Chars(4), reasoning |-> <<>>, created_at |-> 0],
          [role |-> "assistant", content |-> Chars(2), reasoning |-> Chars(1), created_at |-> 0]}

KindSeqs(K) ==
    {s \in UNION {[1..k -> K] : k \in 0..MaxRows} :
        \A i \in 1..Len(s) : \A j \in i..Len(s) : s[i].created_at <= s[j].created_at}

TableOf(s) ==
    {[thread_id |-> "main", idx |-> i - 1, role |-> s[i].role, content |-> s[i].content,
      reasoning |-> s[i].reasoning, created_at |-> s[i].created_at,
      role_display |-> NoName, src |-> 0] : i \in 1..Len(s)}

OptInts(S) == {None} \cup {Some(n) : n \in S}

InitLoad ==
    /\ messages \in {TableOf(s) : s \in KindSeqs(WindowKinds) \cup KindSeqs(TrimKinds)}
    /\ enc \in {NoName, "tiktoken"}
    /\ ChatInit /\ LoadInit /\ CoreInit /\ CronInit /\ BeatInit /\ EdgeInit

\* One call load_messages("main", limit=, since=, max_tokens=).
LoadCall ==
    /\ call.op = "none"
    /\ \E limit \in OptInts(-1..2), since \in OptInts(0..MaxDay + 1),
          max_tokens \in OptInts(0..MaxTokenCap) :
          /\ max_tokens = None \/ since = None
          /\ call' = [op |-> "load_messages", limit |-> limit, since |-> since,
                      max_tokens |-> max_tokens]
          /\ ret' = load_messages(messages, "main", limit, since, max_tokens, TRUE, FALSE, enc)
    /\ UNCHANGED <<messages, enc, chatVars, coreVars, cronVars, beatVars>>

\* One call _trim_to_token_limit(rows, max_tokens) on the thread's rows.
TrimCall ==
    /\ call.op = "none"
    /\ \E max_tokens \in -1..MaxTokenCap :
          /\ call' = [op |-> "trim", limit |-> None, since |-> None,
                      max_tokens |-> Some(max_tokens)]
          /\ ret' = trim_to_token_limit(WindowedHistory(messages, "main", None, None, TRUE, FALSE), max_tokens, enc)
    /\ UNCHANGED <<messages, enc, chatVars, coreVars, cronVars, beatVars>>

NextLoad == LoadCall \/ TrimCall

SpecLoad == InitLoad /\ [][NextLoad]_vars

\* ------------------------------------------------------------ chat()
UserMessages == {<<"h", "i">>, <<"[", "0", "]", "\n", "?">>}
\* What the LLM may end a turn with: an empty content or a text.
Replies == {<<>>, <<"o", "k", "a", "y">>}

HumanMessage(content) == [type |-> "human", content |-> content]
AIMessage(content) == [type |-> "ai", content |-> content]
ToolMessage(content) == [type |-> "tool", content |-> content]

ThinkOpen == <<"<", "t", "h", "i", "n", "k", ">", "\n">>
ThinkClose == <<"\n", "<", "/", "t", "h", "i", "n", "k", ">", "\n", "\n">>

db_to_langchain_row(row) ==
    IF row.role = "user" THEN HumanMessage(row.content)
    ELSE IF row.role = "assistant"
    THEN AIMessage(IF row.reasoning # <<>>
                   THEN ThinkOpen \o row.reasoning \o ThinkClose \o row.content
                   ELSE row.content)
    ELSE ToolMessage(row.content)

db_to_langchain(rs) == [i \in 1..Len(rs) |-> db_to_langchain_row(rs[i])]

\* _format_current_time: the day stands for the formatted instant.
format_current_time(day) == <<ToString(day)>>

\* The in-context copy of the user message carrying the stored (prefixed) text.
NewUserMsgContent(day, user_message) == <<"[">> \o format_current_time(day) \o <<"]", "\n">> \o user_message

\* f"[{time_str}]\n{user_message}"
new_user_msg(day, user_message) == HumanMessage(NewUserMsgContent(day, user_message))

\* The last AIMessage with a non-empty content; <<>> stands for None.
get_last_ai_content(msgs) ==
    LET ais == {i \in 1..Len(msgs) : msgs[i].type = "ai" /\ msgs[i].content # <<>>}
    IN IF ais = {} THEN <<>> ELSE msgs[CHOOSE i \in ais : \A j \in ais : j <= i].content

\* to_persist without the "if last_ai" test.
ToPersistAlways(day, user_message, last_ai) ==
    <<[role |-> "user", content |-> user_message], [role |-> "assistant", content |-> last_ai]>>

\* to_persist persisting the in-context copy of the user message.
ToPersistPrefixed(day, user_message, last_ai) ==
    <<[role |-> "user", content |-> NewUserMsgContent(day, user_message)]>>
    \o (IF last_ai # <<>> THEN <<[role |-> "assistant", content |-> last_ai]>> ELSE <<>>)

\* to_persist: ("user", user_message), then ("assistant", last_ai) "if last_ai".
ToPersist(day, user_message, last_ai) ==
    <<[role |-> "user", content |-> user_message]>>
    \o (IF last_ai # <<>> THEN <<[role |-> "assistant", content |-> last_ai]>> ELSE <<>>)

\* chat() up to its history: load_messages, _db_to_langchain, the new user message.
ChatLoad(t) ==
    /\ pc[t] = "idle"
    /\ \E th \in Threads, m \in UserMessages :
          LET loaded == load_messages(messages, th, Some(RECENT_MESSAGES_LIMIT), Some(today), Some(CONTEXT_WINDOW_TOKENS), TRUE, FALSE, enc)
          IN /\ args' = [args EXCEPT ![t] = [thread_id |-> th, user_message |-> m]]
             /\ rows' = [rows EXCEPT ![t] = loaded]
             /\ invoke_state' = [invoke_state EXCEPT ![t] =
                    Append(db_to_langchain(loaded), new_user_msg(today, m))]
    /\ pc' = [pc EXCEPT ![t] = "loaded"]
    /\ UNCHANGED <<messages, txrows, checkpoint, today, enc, started, result, to_persist,
                   next_idx, tx_now, err, loadVars, coreVars, cronVars, beatVars>>

\* get_checkpointer().delete_thread(thread_id)
DeleteThread(t) ==
    /\ pc[t] = "loaded"
    /\ checkpoint' = [checkpoint EXCEPT ![args[t].thread_id] = <<>>]
    /\ pc' = [pc EXCEPT ![t] = "cleared"]
    /\ UNCHANGED <<messages, txrows, today, enc, args, rows, invoke_state, started, result,
                   to_persist, next_idx, tx_now, err, loadVars, coreVars, cronVars, beatVars>>

\* The state the workflow starts from: the checkpointer's reducer (add_messages)
\* appends the input to what the thread's checkpoint holds.
StartState(t) == checkpoint[args[t].thread_id] \o invoke_state[t]

\* agent.invoke returns: the LLM ended the turn with the content reply.
AgentInvoke(t) ==
    /\ pc[t] = "cleared"
    /\ \E reply \in Replies :
          LET res == Append(StartState(t), AIMessage(reply))
          IN /\ result' = [result EXCEPT ![t] = res]
             /\ checkpoint' = [checkpoint EXCEPT ![args[t].thread_id] = res]
             /\ to_persist' = [to_persist EXCEPT ![t] =
                    ToPersist(today, args[t].user_message, get_last_ai_content(res))]
    /\ started' = [started EXCEPT ![t] = StartState(t)]
    /\ pc' = [pc EXCEPT ![t] = "invoked"]
    /\ UNCHANGED <<messages, txrows, today, enc, args, rows, invoke_state, next_idx, tx_now,
                   err, loadVars, coreVars, cronVars, beatVars>>

\* chat() is left, by return or by exception: its locals are gone. args and
\* to_persist stay as the record of what the turn was called with and handed on.
ChatLeaves(t) ==
    /\ rows' = [rows EXCEPT ![t] = <<>>]
    /\ invoke_state' = [invoke_state EXCEPT ![t] = <<>>]
    /\ started' = [started EXCEPT ![t] = <<>>]
    /\ result' = [result EXCEPT ![t] = <<>>]
    /\ next_idx' = [next_idx EXCEPT ![t] = 0]
    /\ tx_now' = [tx_now EXCEPT ![t] = 0]

\* agent.invoke raises: chat() re-raises, nothing is persisted. The workflow had
\* checkpointed the state it started from.
AgentInvokeRaises(t) ==
    /\ pc[t] = "cleared"
    /\ checkpoint' = [checkpoint EXCEPT ![args[t].thread_id] = StartState(t)]
    /\ pc' = [pc EXCEPT ![t] = "failed"]
    /\ err' = [err EXCEPT ![t] = "LLMError"]
    /\ ChatLeaves(t)
    /\ UNCHANGED <<messages, txrows, today, enc, args, to_persist, loadVars, coreVars, cronVars, beatVars>>

\* ---------------------------------------------------- append_messages
\* SELECT COALESCE(MAX(idx), -1) + 1 over the committed rows of the thread.
NextIdx(tbl, thread_id) ==
    LET idxs == {r.idx : r \in {q \in tbl : q.thread_id = thread_id}}
    IN IF idxs = {} THEN 0 ELSE (CHOOSE i \in idxs : \A j \in idxs : j <= i) + 1

\* The transaction opens with the SELECT; NOW() is its start time.
AppendSelect(t) ==
    /\ pc[t] = "invoked"
    /\ next_idx' = [next_idx EXCEPT ![t] = NextIdx(messages, args[t].thread_id)]
    /\ tx_now' = [tx_now EXCEPT ![t] = today]
    /\ pc' = [pc EXCEPT ![t] = "inserting"]
    /\ UNCHANGED <<messages, txrows, checkpoint, today, enc, args, rows, invoke_state, started,
                   result, to_persist, err, loadVars, coreVars, cronVars, beatVars>>

\* A table without the UNIQUE constraint.
NoUniqueViolation(t) == FALSE

\* UNIQUE(thread_id, idx) against the committed rows.
UniqueViolation(t) ==
    \E r \in messages : r.thread_id = args[t].thread_id /\ r.idx = next_idx[t]

\* The same key inserted by a transaction still open: the INSERT waits for it.
InsertWaits(t) ==
    \E u \in Turns \ {t} : \E i \in 1..Len(txrows[u]) :
        txrows[u][i].thread_id = args[t].thread_id /\ txrows[u][i].idx = next_idx[t]

\* The table after a COMMIT of the transaction's rows.
Committed(tbl, txr) == tbl \cup {txr[i] : i \in 1..Len(txr)}

\* An exception path that commits what was inserted so far.
RollbackCommits(tbl, txr) == Committed(tbl, txr)

\* The table after conn.rollback(): none of the transaction's rows.
Rollback(tbl, txr) == tbl

\* The row one INSERT of append_messages writes.
NewRow(t, item) ==
    [thread_id |-> args[t].thread_id, idx |-> next_idx[t], role |-> item.role,
     content |-> item.content, reasoning |-> <<>>, created_at |-> tx_now[t],
     role_display |-> NoName, src |-> t]

\* One pass of the loop: INSERT the next tuple at next_idx, then next_idx += 1.
AppendInsert(t) ==
    /\ pc[t] = "inserting"
    /\ Len(txrows[t]) < Len(to_persist[t])
    /\ ~UniqueViolation(t)
    /\ ~InsertWaits(t)
    /\ txrows' = [txrows EXCEPT ![t] = Append(@, NewRow(t, to_persist[t][Len(txrows[t]) + 1]))]
    /\ next_idx' = [next_idx EXCEPT ![t] = @ + 1]
    /\ UNCHANGED <<messages, checkpoint, today, enc, pc, args, rows, invoke_state, started,
                   result, to_persist, tx_now, err, loadVars, coreVars, cronVars, beatVars>>

\* The INSERT hits UNIQUE(thread_id, idx): get_connection rolls back and re-raises.
AppendConflict(t) ==
    /\ pc[t] = "inserting"
    /\ Len(txrows[t]) < Len(to_persist[t])
    /\ UniqueViolation(t)
    /\ messages' = Rollback(messages, txrows[t])
    /\ txrows' = [txrows EXCEPT ![t] = <<>>]
    /\ pc' = [pc EXCEPT ![t] = "failed"]
    /\ err' = [err EXCEPT ![t] = "UniqueViolation"]
    /\ ChatLeaves(t)
    /\ UNCHANGED <<checkpoint, today, enc, args, to_persist, loadVars, coreVars, cronVars, beatVars>>

\* Any other error of the connection or of a statement: rolled back and re-raised.
AppendRaises(t) ==
    /\ pc[t] \in {"invoked", "inserting"}
    /\ messages' = Rollback(messages, txrows[t])
    /\ txrows' = [txrows EXCEPT ![t] = <<>>]
    /\ pc' = [pc EXCEPT ![t] = "failed"]
    /\ err' = [err EXCEPT ![t] = IF txrows[t] = <<>> THEN "OperationalError"
                                  ELSE "OperationalError after INSERT"]
    /\ ChatLeaves(t)
    /\ UNCHANGED <<checkpoint, today, enc, args, to_persist, loadVars, coreVars, cronVars, beatVars>>

\* conn.commit() after the loop; chat() then returns.
AppendCommit(t) ==
    /\ pc[t] = "inserting"
    /\ Len(txrows[t]) = Len(to_persist[t])
    /\ messages' = Committed(messages, txrows[t])
    /\ txrows' = [txrows EXCEPT ![t] = <<>>]
    /\ pc' = [pc EXCEPT ![t] = "done"]
    /\ ChatLeaves(t)
    /\ UNCHANGED <<checkpoint, today, enc, args, to_persist, err, loadVars, coreVars, cronVars, beatVars>>

Init ==
    /\ messages = {}
    /\ enc = NoName
    /\ ChatInit /\ LoadInit /\ CoreInit /\ CronInit /\ BeatInit /\ EdgeInit

Next ==
    \E t \in Turns :
          \/ ChatLoad(t) \/ DeleteThread(t) \/ AgentInvoke(t) \/ AgentInvokeRaises(t)
          \/ AppendSelect(t) \/ AppendInsert(t) \/ AppendConflict(t) \/ AppendRaises(t)
          \/ AppendCommit(t)

Spec == Init /\ [][Next]_vars

\* ---------------------------------------------------------- core memory
BlockTypes == Blocks \cup {"system_instructions"}
Contents == {<<"A">>, <<"B">>}
Additions == {<<"+", " ">>}

\* "block_type not in ('user', 'identity', 'ideaspace')"
InvalidBlockType(block_type) == block_type \notin {"user", "identity", "ideaspace"}

HistoryOf(hist, block_type) == {h \in hist : h.block_type = block_type}

\* The history row "ORDER BY id ASC LIMIT 1" would pick.
HistoryOldest(hist, block_type) ==
    CHOOSE h \in HistoryOf(hist, block_type) : \A g \in HistoryOf(hist, block_type) : h.id <= g.id

\* SELECT ... FROM core_memory_history WHERE block_type = %s ORDER BY id DESC LIMIT 1
HistoryNewest(hist, block_type) ==
    CHOOSE h \in HistoryOf(hist, block_type) : \A g \in HistoryOf(hist, block_type) : g.id <= h.id

\* The three tables as one value, so that an operation is a function of it.
CoreDb == [core_memory |-> core_memory, core_memory_history |-> core_memory_history,
           history_seq |-> history_seq]

\* The record of an operation: what was called, what it returned, and the block's
\* row and the history before it.
OpRecord(op, block_type, content, ok) ==
    [op |-> op, block_type |-> block_type, content |-> content, ok |-> ok,
     pre_row |-> IF block_type \in Blocks THEN core_memory[block_type] ELSE NoRow,
     pre_history |-> core_memory_history, pre_db |-> CoreDb,
     pre_system_instructions |-> system_instructions]

Logged(rec) ==
    /\ nops < MaxOps
    /\ nops' = nops + 1
    /\ ops' = IF Len(ops) < 2 THEN Append(ops, rec) ELSE <<ops[2], rec>>

\* The history with every row kept: a rollback that forgot its DELETE.
HistoryKept(hist, id) == hist

\* DELETE FROM core_memory_history WHERE id = %s
HistoryWithout(hist, id) == {h \in hist : h.id # id}

\* update_block(block_type, content) on the tables db: the returned success flag
\* and the tables afterwards.
update_block(db, block_type, content) ==
    IF InvalidBlockType(block_type) THEN [ok |-> FALSE, db |-> db]
    ELSE LET row == db.core_memory[block_type]
             new_version == IF row.present THEN row.version + 1 ELSE 1
         IN [ok |-> TRUE,
             db |-> [core_memory |-> [db.core_memory EXCEPT ![block_type] =
                        [present |-> TRUE, content |-> content, version |-> new_version]],
                     core_memory_history |->
                        IF row.present
                        THEN db.core_memory_history \cup
                               {[id |-> db.history_seq, block_type |-> block_type,
                                 content |-> row.content, version |-> row.version]}
                        ELSE db.core_memory_history,
                     history_seq |-> IF row.present THEN db.history_seq + 1
                                     ELSE db.history_seq]]

\* rollback_block(block_type) on the tables db.
rollback_block(db, block_type) ==
    IF InvalidBlockType(block_type) \/ HistoryOf(db.core_memory_history, block_type) = {}
    THEN [ok |-> FALSE, db |-> db]
    ELSE LET row == HistoryNewest(db.core_memory_history, block_type)
         IN [ok |-> TRUE,
             db |-> [core_memory |-> [db.core_memory EXCEPT ![block_type] =
                        IF @.present
                        THEN [present |-> TRUE, content |-> row.content,
                              version |-> row.version]
                        ELSE @],
                     core_memory_history |-> HistoryWithout(db.core_memory_history, row.id),
                     history_seq |-> db.history_seq]]

\* get_block(block_type): the content, "" if there is no row.
get_block(db, block_type) ==
    IF block_type \in Blocks /\ db.core_memory[block_type].present
    THEN db.core_memory[block_type].content ELSE <<>>

Whitespace == {" ", "\n"}

RECURSIVE LStrip(_)
LStrip(text) ==
    IF text # <<>> /\ Head(text) \in Whitespace THEN LStrip(Tail(text)) ELSE text

RECURSIVE RStrip(_)
RStrip(text) ==
    IF text # <<>> /\ text[Len(text)] \in Whitespace
    THEN RStrip(SubSeq(text, 1, Len(text) - 1)) ELSE text

\* str.strip()
Strip(text) == RStrip(LStrip(text))

\* new_content = (current + "\n\n" + addition).strip() if current else addition
AppendedContent(current, addition) ==
    IF current # <<>> THEN Strip(current \o <<"\n", "\n">> \o addition) ELSE addition

\* append_to_block(block_type, addition) on the tables db.
append_to_block(db, block_type, addition) ==
    IF InvalidBlockType(block_type) THEN [ok |-> FALSE, db |-> db]
    ELSE update_block(db, block_type, AppendedContent(get_block(db, block_type), addition))

\* The tables become what the operation returned.
Stored(r) ==
    /\ core_memory' = r.db.core_memory
    /\ core_memory_history' = r.db.core_memory_history
    /\ history_seq' = r.db.history_seq

\* update_block(block_type, content)
UpdateBlock(block_type, content) ==
    /\ LET r == update_block(CoreDb, block_type, content)
       IN /\ Stored(r)
          /\ Logged(OpRecord("update_block", block_type, content, r.ok))
    /\ UNCHANGED <<messages, enc, chatVars, loadVars, system_instructions, cronVars, beatVars>>

\* rollback_block(block_type)
RollbackBlock(block_type) ==
    /\ LET r == rollback_block(CoreDb, block_type)
       IN /\ Stored(r)
          /\ Logged(OpRecord("rollback_block", block_type, <<>>, r.ok))
    /\ UNCHANGED <<messages, enc, chatVars, loadVars, system_instructions, cronVars, beatVars>>

\* append_to_block(block_type, addition)
AppendToBlock(block_type, addition) ==
    /\ LET r == append_to_block(CoreDb, block_type, addition)
       IN /\ Stored(r)
          /\ Logged(OpRecord("append_to_block", block_type, addition, r.ok))
    /\ UNCHANGED <<messages, enc, chatVars, loadVars, system_instructions, cronVars, beatVars>>

\* What the agent hands to python_repl: code that only prints, and code that
\* imports src.agent.core_memory and calls update_system_instructions(content).
ReplCodes == {[calls |-> "print", content |-> <<>>]} \cup
             {[calls |-> "update_system_instructions", content |-> c] : c \in Contents}

\* python_repl(code): the code runs in a child of the agent's interpreter, in the
\* project root, with the agent's environment, so it reaches the same database.
PythonRepl(code) ==
    /\ system_instructions' =
          IF code.calls = "update_system_instructions" THEN code.content
          ELSE system_instructions
    /\ Logged(OpRecord("python_repl", "system_instructions", code.content, TRUE))
    /\ UNCHANGED <<core_memory, core_memory_history, history_seq>>
    /\ UNCHANGED <<messages, enc, chatVars, loadVars, cronVars, beatVars>>

InitCore ==
    /\ messages = {}
    /\ enc = NoName
    /\ ChatInit /\ LoadInit /\ CoreInit /\ CronInit /\ BeatInit /\ EdgeInit

NextCore ==
    \/ \E block_type \in BlockTypes, content \in Contents : UpdateBlock(block_type, content)
    \/ \E block_type \in BlockTypes : RollbackBlock(block_type)
    \/ \E block_type \in BlockTypes, addition \in Additions : AppendToBlock(block_type, addition)
    \/ \E code \in ReplCodes : PythonRepl(code)

SpecCore == InitCore /\ [][NextCore]_vars

\* ------------------------------------------------- cron jobs: the store
\* schedule_days is NULL (None) or a list (Some of it); schedule_time and
\* run_date are None ("None") or a string.
DaysInputs == {None, Some(<<>>), Some(<<0>>)}
TimeInputs == {NoName, "7:00 PM"}
DateInputs == {NoName, "", "2030-01-01"}

\* Python's "not x" for the optional list and the optional strings.
NoDays(days) == days = None \/ days = Some(<<>>)
NoText(text) == text = NoName \/ text = ""

cronFrame == <<messages, enc, chatVars, loadVars, coreVars, beatVars>>

\* create_cron_job(...): the INSERT, which the DATE column makes fail for a
\* run_date that is no date; the new table and the id of the new row.
create_cron_job(tbl, seq, schedule_days, schedule_time, run_date, created_by) ==
    LET is_one_time == run_date # NoName
    IN IF run_date = ""
       THEN [ok |-> FALSE, tbl |-> tbl, id |-> 0]
       ELSE [ok |-> TRUE, id |-> seq,
             tbl |-> [tbl EXCEPT ![seq] =
                [present |-> TRUE, schedule_days |-> schedule_days,
                 schedule_time |-> schedule_time, run_date |-> run_date,
                 is_one_time |-> is_one_time, status |-> "active",
                 last_run_status |-> NoName, last_run_error |-> FALSE, run_count |-> 0]]]

\* update_cron_job(job_id, field = value): the table afterwards.
update_cron_job(tbl, job_id, field, value) ==
    IF ~tbl[job_id].present THEN tbl
    ELSE [tbl EXCEPT ![job_id] =
            CASE field = "schedule_days" -> [@ EXCEPT !.schedule_days = value]
              [] field = "schedule_time" -> [@ EXCEPT !.schedule_time = value]
              [] field = "run_date" -> [@ EXCEPT !.run_date = value]
              [] field = "status" -> [@ EXCEPT !.status = value]]

\* delete_cron_job(job_id)
delete_cron_job(tbl, job_id) == [tbl EXCEPT ![job_id] = NoJob]

\* The run_count a record_run leaves when it counts successes only.
RunCountKept(n) == n

\* run_count = run_count + 1
RunCountBumped(n) == n + 1

\* record_run(job_id, status, error)
record_run(tbl, job_id, status, error) ==
    IF ~tbl[job_id].present THEN tbl
    ELSE [tbl EXCEPT ![job_id] =
            [@ EXCEPT !.last_run_status = status, !.last_run_error = error,
                      !.run_count = RunCountBumped(@)]]

\* --------------------------------------------- cron jobs: the scheduler
\* parse_time(time_str) returns for "7:00 PM" and raises for "" and None.
ParsesAsTime(time_str) == time_str = "7:00 PM"

\* create_trigger_for_job(job): "date", "cron", or "None" for no trigger.
create_trigger_for_job(job) ==
    IF job.is_one_time
    THEN IF NoText(job.run_date) THEN NoName ELSE "date"
    ELSE IF NoDays(job.schedule_days) THEN NoName
         ELSE IF ParsesAsTime(job.schedule_time) THEN "cron" ELSE NoName

\* remove_job_from_scheduler(job_id)
remove_job_from_scheduler(sched, job_id) ==
    IF ~sched.running THEN sched ELSE [sched EXCEPT !.jobs = {e \in @ : e.id # job_id}]

\* add_job_to_scheduler(scheduler, job)
add_job_to_scheduler(sched, job_id, job) ==
    LET trigger == create_trigger_for_job(job)
    IN IF trigger = NoName THEN sched
       ELSE [sched EXCEPT !.jobs =
                {e \in @ : e.id # job_id} \cup {[id |-> job_id, trigger |-> trigger]}]

\* refresh_job_in_scheduler(job_id)
refresh_job_in_scheduler(sched, tbl, job_id) ==
    IF ~sched.running THEN sched
    ELSE IF ~tbl[job_id].present THEN remove_job_from_scheduler(sched, job_id)
    ELSE IF tbl[job_id].status # "active" THEN remove_job_from_scheduler(sched, job_id)
    ELSE add_job_to_scheduler(sched, job_id, tbl[job_id])

RECURSIVE AddActiveJobs(_, _, _)
AddActiveJobs(sched, tbl, ids) ==
    IF ids = {} THEN sched
    ELSE LET j == CHOOSE i \in ids : TRUE
         IN AddActiveJobs(IF tbl[j].present /\ tbl[j].status = "active"
                          THEN add_job_to_scheduler(sched, j, tbl[j]) ELSE sched,
                          tbl, ids \ {j})

Held(j) == scheduler.running /\ \E e \in scheduler.jobs : e.id = j

\* start_scheduler()
StartScheduler ==
    /\ ~scheduler.running
    /\ scheduler' = AddActiveJobs([running |-> TRUE, jobs |-> {}], cron_jobs, JobIds)
    /\ cron_op' = [NoOp EXCEPT !.kind = "crud"]
    /\ UNCHANGED <<cron_jobs, cron_seq, exec, cron_rows, fires, cronFrame>>

\* ------------------------------------------------ cron jobs: the CRUD
\* The table, the id counter and the scheduler after a create and its refresh.
Created(r) ==
    /\ cron_jobs' = r.tbl
    /\ cron_seq' = IF r.ok THEN cron_seq + 1 ELSE cron_seq
    /\ scheduler' = IF r.ok THEN refresh_job_in_scheduler(scheduler, r.tbl, r.id)
                    ELSE scheduler
    /\ cron_op' = [NoOp EXCEPT !.kind = "crud", !.id = r.id]
    /\ UNCHANGED <<exec, cron_rows, fires, cronFrame>>

\* A request the handler refuses (400, 404): nothing changes.
Refused(job_id) ==
    /\ cron_op' = [NoOp EXCEPT !.kind = "crud", !.id = job_id]
    /\ UNCHANGED <<cron_jobs, cron_seq, scheduler, exec, cron_rows, fires, cronFrame>>

\* POST /cron/jobs
CreateJobHttp(schedule_days, schedule_time, run_date) ==
    /\ scheduler.running
    /\ cron_seq <= MaxJobs
    /\ IF \/ ~NoText(run_date) /\ NoText(schedule_time)
          \/ NoText(run_date) /\ (NoDays(schedule_days) \/ NoText(schedule_time))
       THEN Refused(0)
       ELSE Created(create_cron_job(cron_jobs, cron_seq, schedule_days, schedule_time,
                                    run_date, "user"))

\* cron_create_job_tool(...)
CreateJobTool(schedule_days, schedule_time, run_date) ==
    /\ cron_seq <= MaxJobs
    /\ schedule_days # None /\ schedule_time # NoName /\ run_date # NoName
    /\ Created(create_cron_job(cron_jobs, cron_seq,
                               IF NoDays(schedule_days) THEN None ELSE schedule_days,
                               schedule_time,
                               IF NoText(run_date) THEN NoName ELSE run_date, "agent"))

\* The table and the scheduler after an update of one job and its refresh.
Updated(tbl, job_id) ==
    /\ cron_jobs' = tbl
    /\ scheduler' = refresh_job_in_scheduler(scheduler, tbl, job_id)
    /\ cron_op' = [NoOp EXCEPT !.kind = "crud", !.id = job_id]
    /\ UNCHANGED <<cron_seq, exec, cron_rows, fires, cronFrame>>

UpdateFields ==
    {[field |-> "schedule_days", value |-> v] : v \in {Some(<<>>), Some(<<0>>)}} \cup
    {[field |-> "schedule_time", value |-> v] : v \in {"7:00 PM"}} \cup
    {[field |-> "run_date", value |-> v] : v \in {"2030-01-01"}} \cup
    {[field |-> "status", value |-> v] : v \in {"active", "paused"}}

\* What "if value:" of cron_update_job_tool lets through.
ToolSets(u) == IF u.field = "schedule_days" THEN ~NoDays(u.value) ELSE ~NoText(u.value)

\* PUT /cron/jobs/{job_id} (via = "http") and cron_update_job_tool (via = "tool")
UpdateJob(via, job_id, u) ==
    /\ via = "http" => scheduler.running
    /\ via = "tool" => ToolSets(u)
    /\ IF ~cron_jobs[job_id].present THEN Refused(job_id)
       ELSE Updated(update_cron_job(cron_jobs, job_id, u.field, u.value), job_id)

\* POST /cron/jobs/{job_id}/pause and cron_pause_job_tool
PauseJob(job_id) ==
    IF ~cron_jobs[job_id].present THEN Refused(job_id)
    ELSE Updated(update_cron_job(cron_jobs, job_id, "status", "paused"), job_id)

\* POST /cron/jobs/{job_id}/resume and cron_resume_job_tool
ResumeJob(job_id) ==
    IF ~cron_jobs[job_id].present THEN Refused(job_id)
    ELSE Updated(update_cron_job(cron_jobs, job_id, "status", "active"), job_id)

\* DELETE /cron/jobs/{job_id}: the refresh runs while the row is still there.
DeleteJobHttp(job_id) ==
    /\ scheduler.running
    /\ IF ~cron_jobs[job_id].present THEN Refused(job_id)
       ELSE /\ scheduler' = refresh_job_in_scheduler(scheduler, cron_jobs, job_id)
            /\ cron_jobs' = delete_cron_job(cron_jobs, job_id)
            /\ cron_op' = [NoOp EXCEPT !.kind = "crud", !.id = job_id]
            /\ UNCHANGED <<cron_seq, exec, cron_rows, fires, cronFrame>>

\* cron_delete_job_tool(job_id)
DeleteJobTool(job_id) ==
    /\ scheduler' = remove_job_from_scheduler(scheduler, job_id)
    /\ cron_jobs' = delete_cron_job(cron_jobs, job_id)
    /\ cron_op' = [NoOp EXCEPT !.kind = "crud", !.id = job_id]
    /\ UNCHANGED <<cron_seq, exec, cron_rows, fires, cronFrame>>

\* clone_cron_job(job_id): a create_cron_job with the original's schedule_days
\* and schedule_time and no run_date.
clone_cron_job(tbl, seq, job_id) ==
    create_cron_job(tbl, seq, tbl[job_id].schedule_days, tbl[job_id].schedule_time,
                    NoName, "user")

\* POST /cron/jobs/{job_id}/clone
CloneJob(job_id) ==
    /\ scheduler.running
    /\ cron_seq <= MaxJobs
    /\ IF ~cron_jobs[job_id].present THEN Refused(job_id)
       ELSE Created(clone_cron_job(cron_jobs, cron_seq, job_id))

\* ------------------------------------------- cron jobs: the execution
\* The step an execute_cron_job made: whether it returned, and how.
ExecStep(j, step, outcome) ==
    [kind |-> IF outcome = NoName THEN "exec" ELSE "done", id |-> j, step |-> step,
     outcome |-> outcome, is_one_time |-> exec[j].is_one_time,
     fired_count |-> exec[j].fired_count, fired_rows |-> exec[j].fired_rows,
     status_before |-> cron_jobs[j].status, present_before |-> cron_jobs[j].present]

\* How many "[Cron: name]" rows of job j thread "main" holds.
RowsOf(j) == Cardinality({i \in 1..Len(cron_rows) : cron_rows[i] = j})

\* A status test that lets every job through.
NotActiveNever(job) == FALSE

\* if job.get("status") != "active"
NotActive(job) == job.status # "active"

\* The handler that drops the error instead of recording it.
ErrorDropped(tbl, j) == tbl

\* except Exception as e: ... record_run(job_id, "error", error=...)
ErrorRecorded(tbl, j) == record_run(tbl, j, "error", TRUE)

\* The scheduler fires the trigger it holds for job j and starts
\* execute_cron_job(j); a date trigger has no next run and leaves the scheduler.
Fire(j) ==
    /\ Held(j) /\ exec[j].pc = "idle" /\ fires < MaxFires
    /\ fires' = fires + 1
    /\ scheduler' = [scheduler EXCEPT !.jobs = {e \in @ : ~(e.id = j /\ e.trigger = "date")}]
    /\ exec' = [exec EXCEPT ![j] = [NoExec EXCEPT !.pc = "read",
                                                  !.fired_count = cron_jobs[j].run_count,
                                                  !.fired_rows = RowsOf(j)]]
    /\ cron_op' = [NoOp EXCEPT !.kind = "exec", !.id = j]
    /\ UNCHANGED <<cron_jobs, cron_seq, cron_rows, cronFrame>>

\* execute_cron_job: get_cron_job and the two early returns.
ExecRead(j) ==
    /\ exec[j].pc = "read"
    /\ LET job == cron_jobs[j]
       IN IF ~job.present
          THEN /\ exec' = [exec EXCEPT ![j] = NoExec]
               /\ cron_op' = ExecStep(j, "read", "not found")
               /\ UNCHANGED cron_jobs
          ELSE IF NotActive(job)
          THEN /\ cron_jobs' = record_run(cron_jobs, j, "skipped", FALSE)
               /\ exec' = [exec EXCEPT ![j] = NoExec]
               /\ cron_op' = ExecStep(j, "read", "skipped")
          ELSE /\ exec' = [exec EXCEPT ![j].pc = "turn", ![j].is_one_time = job.is_one_time]
               /\ cron_op' = ExecStep(j, "read", NoName)
               /\ UNCHANGED cron_jobs
    /\ UNCHANGED <<cron_seq, scheduler, cron_rows, fires, cronFrame>>

\* _run_cron_job_sync: build_agent() and chat(..., thread_id="main", ...) return;
\* the turn's rows are in thread "main".
ExecTurn(j) ==
    /\ exec[j].pc = "turn"
    /\ cron_rows' = Append(cron_rows, j)
    /\ exec' = [exec EXCEPT ![j].pc = "record"]
    /\ cron_op' = ExecStep(j, "turn", NoName)
    /\ UNCHANGED <<cron_jobs, cron_seq, scheduler, fires, cronFrame>>

\* build_agent() or chat() raises (a failed turn persists nothing): the handler
\* of execute_cron_job calls record_run(job_id, "error", ...), and swallows the
\* exception if that raises too.
ExecTurnRaises(j, record_raises) ==
    /\ exec[j].pc = "turn"
    /\ cron_jobs' = IF record_raises THEN cron_jobs
                    ELSE ErrorRecorded(cron_jobs, j)
    /\ exec' = [exec EXCEPT ![j] = NoExec]
    /\ cron_op' = ExecStep(j, "turn raises", IF record_raises THEN "error unrecorded" ELSE "error")
    /\ UNCHANGED <<cron_seq, scheduler, cron_rows, fires, cronFrame>>

\* _run_cron_job_sync: record_run(job_id, "success")
ExecRecord(j) ==
    /\ exec[j].pc = "record"
    /\ cron_jobs' = record_run(cron_jobs, j, "success", FALSE)
    /\ exec' = IF exec[j].is_one_time THEN [exec EXCEPT ![j].pc = "pause"]
               ELSE [exec EXCEPT ![j] = NoExec]
    /\ cron_op' = ExecStep(j, "record", IF exec[j].is_one_time THEN NoName ELSE "success")
    /\ UNCHANGED <<cron_seq, scheduler, cron_rows, fires, cronFrame>>

\* _run_cron_job_sync: if is_one_time: update_cron_job(job_id, status="paused")
ExecPause(j) ==
    /\ exec[j].pc = "pause"
    /\ cron_jobs' = update_cron_job(cron_jobs, j, "status", "paused")
    /\ exec' = [exec EXCEPT ![j] = NoExec]
    /\ cron_op' = ExecStep(j, "pause", "success")
    /\ UNCHANGED <<cron_seq, scheduler, cron_rows, fires, cronFrame>>

InitCron ==
    /\ messages = {}
    /\ enc = NoName
    /\ ChatInit /\ LoadInit /\ CoreInit /\ CronInit /\ BeatInit /\ EdgeInit

NextCron ==
    \/ StartScheduler
    \/ \E d \in DaysInputs, t \in TimeInputs, r \in DateInputs : CreateJobHttp(d, t, r)
    \/ \E d \in DaysInputs, t \in TimeInputs, r \in DateInputs : CreateJobTool(d, t, r)
    \/ \E via \in {"http", "tool"}, j \in JobIds, u \in UpdateFields : UpdateJob(via, j, u)
    \/ \E j \in JobIds : PauseJob(j)
    \/ \E j \in JobIds : ResumeJob(j)
    \/ \E j \in JobIds : DeleteJobHttp(j)
    \/ \E j \in JobIds : DeleteJobTool(j)
    \/ \E j \in JobIds : CloneJob(j)
    \/ \E j \in JobIds : Fire(j)
    \/ \E j \in JobIds : ExecRead(j)
    \/ \E j \in JobIds : ExecTurn(j)
    \/ \E j \in JobIds, record_raises \in BOOLEAN : ExecTurnRaises(j, record_raises)
    \/ \E j \in JobIds : ExecRecord(j)
    \/ \E j \in JobIds : ExecPause(j)

SpecCron == InitCron /\ [][NextCron]_vars

\* --------------------------------------- the activity sentinel, heartbeat
DEFAULT_CHANNEL_TYPE == "local"

\* The channel_type each caller passes: None, "discord" and "telegram" from the
\* adapters, "internal" from _run_cron_job_sync.
ChannelTypes(caller) == IF caller = "cron" THEN {"internal"} ELSE {NoName, "discord", "telegram"}

beatFrame == <<messages, enc, chatVars, loadVars, coreVars, cronVars, edgeVars>>

\* A sentinel every turn writes, the internal ones too.
SentinelAlways(channel_type, now, sentinel) == Some(now)

\* if channel_type != "internal": LAST_ACTIVE_PATH.write_text(str(time.time()))
Sentinel(channel_type, now, sentinel) ==
    IF channel_type # "internal" THEN Some(now) ELSE sentinel

\* chat() is called: channel_type None becomes DEFAULT_CHANNEL_TYPE; the turn
\* loads history and invokes the agent.
ChatBegins(caller, channel_type) ==
    /\ beat_turn[caller].pc = "idle"
    /\ beat_turn' = [beat_turn EXCEPT ![caller] =
          [pc |-> "running",
           channel_type |-> IF channel_type = NoName THEN DEFAULT_CHANNEL_TYPE
                            ELSE channel_type]]
    /\ beat_op' = NoEnd
    /\ UNCHANGED <<clock, last_active, heartbeat, beatFrame>>

\* chat() returns: append_messages has committed, then the sentinel is written.
ChatEnds(caller) ==
    /\ beat_turn[caller].pc = "running"
    /\ last_active' = Sentinel(beat_turn[caller].channel_type, clock, last_active)
    /\ beat_turn' = [beat_turn EXCEPT ![caller] = NoTurn]
    /\ beat_op' = [caller |-> caller, channel_type |-> beat_turn[caller].channel_type,
                   ok |-> TRUE, before |-> last_active]
    /\ UNCHANGED <<clock, heartbeat, beatFrame>>

\* chat() raises (agent.invoke or append_messages): it never reaches the
\* sentinel.
ChatRaises(caller) ==
    /\ beat_turn[caller].pc = "running"
    /\ beat_turn' = [beat_turn EXCEPT ![caller] = NoTurn]
    /\ beat_op' = [caller |-> caller, channel_type |-> beat_turn[caller].channel_type,
                   ok |-> FALSE, before |-> last_active]
    /\ UNCHANGED <<clock, last_active, heartbeat, beatFrame>>

\* A skip test that never skips.
RecentlyActiveNever(sentinel, now) == FALSE

\* LAST_ACTIVE_PATH.exists() and
\* (time.time() - last_active_ts) / 60 < HEARTBEAT_SKIP_WINDOW_MINUTES
RecentlyActive(sentinel, now) ==
    sentinel # None /\ now - sentinel[1] < HEARTBEAT_SKIP_WINDOW_MINUTES

\* The metadata->>'date_est' of a stored row: append_messages stores no such
\* key (only role_display); _format_metadata adds it to the dicts load_messages
\* returns, not to the table.
StoredDateEst(r) == NoName

\* SELECT COUNT(*) FROM messages WHERE role = 'user'
\*   AND metadata->>'role_display' = 'heartbeat' AND metadata->>'date_est' = today
count_today_heartbeats(tbl, today_str) ==
    Cardinality({r \in tbl : /\ r.role = "user"
                             /\ r.role_display = "heartbeat"
                             /\ StoredDateEst(r) = today_str})

\* stored_message = None if today_count == 0 else "HEARTBEAT"
StoredMessage(today_count) == IF today_count = 0 THEN NoName ELSE "HEARTBEAT"

\* run_heartbeat(): the skip test; past it, setup_schema, build_agent and
\* _count_today_heartbeats.
HeartbeatChecks ==
    /\ heartbeat.pc = "idle"
    /\ heartbeat' =
          IF RecentlyActive(last_active, clock)
          THEN [NoBeat EXCEPT !.result = "user_recently_active",
                              !.seen = last_active, !.at = clock,
                              !.during = beat_turn["user"].pc = "running"]
          ELSE LET today_count == count_today_heartbeats(messages, "day0")
               IN [NoBeat EXCEPT !.pc = "waking",
                                 !.seen = last_active, !.at = clock,
                                 !.during = beat_turn["user"].pc = "running",
                                 !.today_count = today_count,
                                 !.stored_message = StoredMessage(today_count)]
    /\ beat_op' = NoEnd
    /\ UNCHANGED <<clock, last_active, beat_turn, beatFrame>>

\* run_heartbeat(): chat(agent, thread_id, prompt, stored_message=..., ...).
\* chat() has no parameter stored_message, so the call raises TypeError before
\* chat's body runs, and run_heartbeat raises it on.
HeartbeatChats ==
    /\ heartbeat.pc = "waking"
    /\ heartbeat' = [heartbeat EXCEPT !.pc = "idle", !.result = "TypeError"]
    /\ beat_op' = NoEnd
    /\ UNCHANGED <<clock, last_active, beat_turn, beatFrame>>

\* A minute passes.
Tick ==
    /\ clock < MaxClock
    /\ clock' = clock + 1
    /\ beat_op' = NoEnd
    /\ UNCHANGED <<last_active, beat_turn, heartbeat, beatFrame>>

InitBeat ==
    /\ messages = {}
    /\ enc = NoName
    /\ ChatInit /\ LoadInit /\ CoreInit /\ CronInit /\ BeatInit /\ EdgeInit

NextBeat ==
    \/ \E c \in BeatCallers : \E channel_type \in ChannelTypes(c) : ChatBegins(c, channel_type)
    \/ \E c \in BeatCallers : ChatEnds(c)
    \/ \E c \in BeatCallers : ChatRaises(c)
    \/ HeartbeatChecks
    \/ HeartbeatChats
    \/ Tick

SpecBeat == InitBeat /\ [][NextBeat]_vars

\* ------------------------------------- scripts/run_heartbeat_scheduler
HoursPerDay == 24
Hours == 0..(HoursPerDay - 1)

\* A test that lets every tick through.
IsWakingHoursAlways(wake_hour, sleep_hour, hour) == TRUE

\* return wake_hour <= now.hour < sleep_hour
is_waking_hours(wake_hour, sleep_hour, hour) == wake_hour <= hour /\ hour < sleep_hour

otherFrame == <<messages, enc, chatVars, loadVars, coreVars, cronVars,
                clock, last_active, beat_turn, heartbeat, beat_op>>
wakeFrame == <<otherFrame, tgVars, dc, hindsight, http, dailyVars, lateVars>>

\* The interval job fires: run_one_heartbeat().
RunOneHeartbeat ==
    /\ wake' = [wake EXCEPT !.last =
          IF ~is_waking_hours(wake.wake_hour, wake.sleep_hour, wake.hour) THEN "skipped"
          ELSE "run_heartbeat"]
    /\ UNCHANGED wakeFrame

\* The local hour moves on.
HourPasses ==
    /\ wake' = [wake EXCEPT !.hour = (wake.hour + 1) % HoursPerDay, !.last = "none"]
    /\ UNCHANGED wakeFrame

\* HEARTBEAT_WAKE_HOUR and HEARTBEAT_SLEEP_HOUR are read from the environment.
InitWake ==
    /\ messages = {}
    /\ enc = NoName
    /\ ChatInit /\ LoadInit /\ CoreInit /\ CronInit /\ BeatInit
    /\ TelegramInit /\ DiscordInit /\ HindsightInit /\ HttpInit /\ DailyInit /\ LateInit
    /\ \E wake_hour \in Hours, sleep_hour \in Hours :
          wake = [NoWake EXCEPT !.wake_hour = wake_hour, !.sleep_hour = sleep_hour]

NextWake == RunOneHeartbeat \/ HourPasses

SpecWake == InitWake /\ [][NextWake]_vars

\* --------------------------------------------- telegram_listener.py
\* An incoming message: the chat (channel) it is in, whether a bot wrote it,
\* its text.
Incoming ==
    {[chat |-> "target", bot |-> FALSE, text |-> <<"h", "i">>],
     [chat |-> "other", bot |-> FALSE, text |-> <<"h", "i">>],
     [chat |-> "target", bot |-> TRUE, text |-> <<"h", "i">>],
     [chat |-> "target", bot |-> FALSE, text |-> <<" ">>]}

tgFrame == <<otherFrame, wake, dc, hindsight, http, dailyVars, lateVars>>

\* A filter that lets every message through.
AcceptsAll(m) == TRUE

\* incoming_chat_id == target_chat_id, not sender.get("is_bot"), and
\* msg.get("text", "").strip() not empty.
Accepts(m) == m.chat = "target" /\ ~m.bot /\ Strip(m.text) # <<>>

\* What getUpdates(offset, limit) answers with 200: the first `limit` update
\* ids from `offset` on (from the first unconfirmed one without an offset).
UpdatesFrom(server, offset) ==
    LET from == IF offset = None THEN server.confirmed ELSE Max(offset[1], server.confirmed)
        upto == Min(Len(server.updates), from + GET_UPDATES_LIMIT - 1)
    IN [i \in 1..(IF upto >= from THEN upto - from + 1 ELSE 0) |-> from + i - 1]

\* Telegram forgets the updates below an offset it is asked for.
Confirm(server, offset) ==
    IF offset = None THEN server
    ELSE [server EXCEPT !.confirmed = Max(server.confirmed, offset[1])]

GetUpdatesOutcomes == {"200", "409", "error"}

\* _get_updates(offset, timeout): the list for a 200, [] for 409, for every
\* other status and for every exception.
get_updates(server, offset, outcome) ==
    IF outcome = "200" THEN UpdatesFrom(server, offset) ELSE <<>>

\* A message reaches the bot. It is pending if it is there before the
\* listener's first getUpdates.
TgArrive(m) ==
    /\ Len(tg_server.updates) < MaxUpdates
    /\ tg_server' = [tg_server EXCEPT !.updates =
          Append(@, [chat |-> m.chat, bot |-> m.bot, text |-> m.text,
                     pending |-> tg.pc \in {"off", "init"}])]
    /\ UNCHANGED <<tg, tg_done, tgFrame>>

\* start_telegram_listener creates the task; _poll_loop calls _get_me and
\* returns if it fails.
TgStart(bot_info) ==
    /\ tg.pc = "off"
    /\ tg' = [tg EXCEPT !.pc = IF bot_info THEN "init" ELSE "aborted"]
    /\ UNCHANGED <<tg_server, tg_done, tgFrame>>

\* pending = await _get_updates(offset=None, timeout=0); the offset goes past
\* the last of them, or stays None.
TgInit(outcome) ==
    /\ tg.pc = "init"
    /\ LET pending == get_updates(tg_server, None, outcome)
       IN tg' = [tg EXCEPT !.pc = "poll",
                           !.offset = IF pending # <<>> THEN Some(pending[Len(pending)] + 1)
                                      ELSE None,
                           !.after409 = outcome = "409"]
    /\ UNCHANGED <<tg_server, tg_done, tgFrame>>

\* The top of the loop: updates = await _get_updates(offset, 30).
TgPoll(outcome) ==
    /\ tg.pc = "poll"
    /\ LET updates == get_updates(tg_server, tg.offset, outcome)
       IN tg' = [tg EXCEPT !.pc = IF updates # <<>> THEN "handle" ELSE "poll",
                           !.batch = updates,
                           !.hot = tg.after409,
                           !.after409 = outcome = "409",
                           !.raised = FALSE]
    /\ tg_server' = IF outcome = "200" THEN Confirm(tg_server, tg.offset) ELSE tg_server
    /\ UNCHANGED <<tg_done, tgFrame>>

TurnOutcomes == {"replied", "silent", "raised"}

\* A handler that ends the task.
OnExceptionEnds(l, u) ==
    [l EXCEPT !.offset = Some(u + 1), !.batch = <<>>, !.pc = "stopped", !.raised = TRUE]

\* A handler that takes the offset back to the failed update.
OnExceptionRewinds(l, u) ==
    [l EXCEPT !.offset = Some(u), !.batch = <<>>, !.pc = "sleep", !.raised = TRUE]

\* except Exception as e: logger.error(...); await asyncio.sleep(5)
OnException(l, u) ==
    [l EXCEPT !.offset = Some(u + 1), !.batch = <<>>, !.pc = "sleep", !.raised = TRUE]

\* One pass of "for update in updates": the offset advances, the filters, then
\* chat() and _send_message. chat() raising leaves the loop body for the
\* handler, which sleeps 5 seconds.
TgHandle(outcome) ==
    /\ tg.pc = "handle"
    /\ LET u == Head(tg.batch)
           m == tg_server.updates[u]
           rest == Tail(tg.batch)
       IN IF ~Accepts(m)
          THEN /\ outcome = "silent"
               /\ tg_done' = [tg_done EXCEPT ![u] = "dropped"]
               /\ tg' = [tg EXCEPT !.offset = Some(u + 1), !.batch = rest,
                                   !.pc = IF rest = <<>> THEN "poll" ELSE "handle"]
          ELSE /\ tg_done' = [tg_done EXCEPT ![u] = outcome]
               /\ tg' = IF outcome = "raised"
                        THEN OnException(tg, u)
                        ELSE [tg EXCEPT !.offset = Some(u + 1), !.batch = rest,
                                        !.pc = IF rest = <<>> THEN "poll" ELSE "handle"]
    /\ UNCHANGED <<tg_server, tgFrame>>

\* await asyncio.sleep(5) is over: back to the top of the loop.
TgSleepDone ==
    /\ tg.pc = "sleep"
    /\ tg' = [tg EXCEPT !.pc = "poll", !.after409 = FALSE]
    /\ UNCHANGED <<tg_server, tg_done, tgFrame>>

\* stop_telegram_listener: _task.cancel() raises CancelledError at the await
\* the task stands at.
TgCancel ==
    /\ tg.pc \in {"init", "poll", "handle", "sleep"}
    /\ tg' = [tg EXCEPT !.pc = "stopped", !.cancelled = TRUE, !.batch = <<>>]
    /\ UNCHANGED <<tg_server, tg_done, tgFrame>>

\* --------------------------------------------- discord_listener.py
\* on_message(message): the three filters, then chat() and channel.send.
DiscordOnMessage(m, outcome) ==
    /\ dc' = [channel |-> m.chat, bot |-> m.bot, content |-> m.text,
              did |-> IF m.chat # "target" THEN "dropped"
                      ELSE IF m.bot THEN "dropped"
                      ELSE IF Strip(m.text) = <<>> THEN "dropped"
                      ELSE outcome]
    /\ UNCHANGED <<tgVars, wake, hindsight, http, dailyVars, lateVars, otherFrame>>

InitIngress ==
    /\ messages = {}
    /\ enc = NoName
    /\ ChatInit /\ LoadInit /\ CoreInit /\ CronInit /\ BeatInit /\ EdgeInit

NextTelegram ==
    \/ \E m \in Incoming : TgArrive(m)
    \/ \E bot_info \in BOOLEAN : TgStart(bot_info)
    \/ \E outcome \in GetUpdatesOutcomes : TgInit(outcome)
    \/ \E outcome \in GetUpdatesOutcomes : TgPoll(outcome)
    \/ \E outcome \in TurnOutcomes : TgHandle(outcome)
    \/ TgSleepDone
    \/ TgCancel

SpecTelegram == InitIngress /\ [][NextTelegram]_vars

\* The event loop runs the task on; a getUpdates that is asked again and again
\* is answered with 200 in the end.
SpecTelegramLive ==
    /\ SpecTelegram
    /\ WF_vars(TgPoll("200"))
    /\ WF_vars(\E outcome \in TurnOutcomes : TgHandle(outcome))
    /\ WF_vars(TgSleepDone)

NextIngress ==
    \/ NextTelegram
    \/ \E m \in Incoming, outcome \in TurnOutcomes : DiscordOnMessage(m, outcome)

SpecIngress == InitIngress /\ [][NextIngress]_vars

\* ------------------------------------------------------ hindsight.py
\* How the collaborator answers: not reachable, an error answer, an empty
\* answer, memories.
ServerStates == {"unreachable", "error", "empty", "memories"}

HindsightOps == {"retain", "recall", "reflect"}

hsFrame == <<otherFrame, wake, tgVars, dc, http, dailyVars, lateVars>>

Returned(v) == [raised |-> FALSE, out |-> v]
Raised(exc) == [raised |-> TRUE, out |-> exc]

\* client.retain / client.recall / client.reflect inside "with client:".
ClientCall(server) ==
    IF server = "unreachable" THEN Raised("ConnectError")
    ELSE IF server = "error" THEN Raised("HTTPStatusError")
    ELSE Returned(server)

\* A handler that catches nothing.
CaughtNever(exc) == FALSE

\* except Exception
Caught(exc) == exc \in {"ConnectError", "HTTPStatusError"}

\* _get_client(): None on ImportError.
get_client(h) == IF h.installed THEN "client" ELSE NoName

retain_exchange(h) ==
    IF ~h.enabled THEN Returned("False")
    ELSE IF get_client(h) = NoName THEN Returned("False")
    ELSE LET r == ClientCall(h.server)
         IN IF r.raised
            THEN IF Caught(r.out) THEN Returned("False") ELSE r
            ELSE Returned("True")

recall(h) ==
    IF get_client(h) = NoName THEN Returned("Hindsight is not available. Memory recall failed.")
    ELSE LET r == ClientCall(h.server)
         IN IF r.raised
            THEN IF Caught(r.out) THEN Returned("Hindsight recall failed: e") ELSE r
            ELSE IF r.out = "empty" THEN Returned("I don't have any memories that match that.")
            ELSE Returned("From my experience with the user: ...")

reflect(h) ==
    IF get_client(h) = NoName THEN Returned("Hindsight is not available. Reflection failed.")
    ELSE LET r == ClientCall(h.server)
         IN IF r.raised
            THEN IF Caught(r.out) THEN Returned("Hindsight reflect failed: e") ELSE r
            ELSE IF r.out = "empty"
                 THEN Returned("I reflected but have nothing specific to share.")
            ELSE Returned("text")

\* One call of retain_exchange, recall or reflect.
HindsightCall(op) ==
    /\ hindsight.calls < MaxCalls
    /\ LET r == CASE op = "retain" -> retain_exchange(hindsight)
                  [] op = "recall" -> recall(hindsight)
                  [] op = "reflect" -> reflect(hindsight)
       IN hindsight' = [hindsight EXCEPT !.calls = @ + 1,
                           !.last = [op |-> op, server |-> hindsight.server,
                                     raised |-> r.raised, out |-> r.out]]
    /\ UNCHANGED hsFrame

\* The collaborator goes down, comes back, starts to answer with errors.
ServerChanges(server) ==
    /\ server # hindsight.server
    /\ hindsight' = [hindsight EXCEPT !.server = server]
    /\ UNCHANGED hsFrame

\* The installation: hindsight_client importable or not, HINDSIGHT_ENABLED.
InitHindsight ==
    /\ messages = {}
    /\ enc = NoName
    /\ ChatInit /\ LoadInit /\ CoreInit /\ CronInit /\ BeatInit
    /\ WakeInit /\ TelegramInit /\ DiscordInit /\ HttpInit /\ DailyInit /\ LateInit
    /\ \E installed \in BOOLEAN, enabled \in BOOLEAN, server \in ServerStates :
          hindsight = [NoHindsight EXCEPT !.installed = installed, !.enabled = enabled,
                                          !.server = server]

NextHindsight ==
    \/ \E op \in HindsightOps : HindsightCall(op)
    \/ \E server \in ServerStates : ServerChanges(server)

SpecHindsight == InitHindsight /\ [][NextHindsight]_vars

\* ----------------------------------------- chat() errors, POST /chat
\* What chat() looks for in str(e).lower().
AuthMarks == {"401", "invalid token", "authentication"}
RateMarks == {"429", "rate limit", "capacity"}

\* What can end a turn: an exception of agent.invoke, of one of two types and
\* with any of the marks in its text, or a database error of load_messages or
\* append_messages.
Failures ==
    {[type |-> t, text |-> m, from |-> "agent.invoke"] :
        t \in {"RuntimeError", "APIStatusError"}, m \in SUBSET (AuthMarks \cup RateMarks)}
    \cup {[type |-> "OperationalError", text |-> {}, from |-> "db"]}

httpFrame == <<otherFrame, wake, tgVars, dc, hindsight, dailyVars, lateVars>>

\* The except branch of chat() around agent.invoke: a RuntimeError about the
\* credentials, a RuntimeError about the rate limit, or the exception as it is.
ChatRaised(e) ==
    IF e.from # "agent.invoke" THEN e
    ELSE IF e.text \cap AuthMarks # {}
         THEN [type |-> "RuntimeError", text |-> {"LLM authentication failed (401)"},
               from |-> "chat"]
    ELSE IF e.text \cap RateMarks # {}
         THEN [type |-> "RuntimeError", text |-> {"LLM rate limit"}, from |-> "chat"]
    ELSE e

\* A handler order in which RuntimeError is not told apart.
IsRuntimeErrorNever(e) == FALSE

\* except RuntimeError as e
IsRuntimeError(e) == e.type = "RuntimeError"

\* post_chat: 503 for a RuntimeError, 500 for every other exception, else 200.
StatusOf(e) ==
    IF e = NoExc THEN 200
    ELSE IF IsRuntimeError(e) THEN 503
    ELSE 500

\* POST /chat arrives; chat() runs and returns or raises.
PostChatTurn ==
    /\ http.pc = "idle"
    /\ \E e \in Failures \cup {NoExc} :
          http' = [http EXCEPT !.pc = "turned", !.failure = e, !.raised = ChatRaised(e)]
    /\ UNCHANGED httpFrame

\* post_chat answers.
PostChatAnswers ==
    /\ http.pc = "turned"
    /\ http' = [http EXCEPT !.pc = "answered", !.status = StatusOf(http.raised)]
    /\ UNCHANGED httpFrame

InitHttp ==
    /\ messages = {}
    /\ enc = NoName
    /\ ChatInit /\ LoadInit /\ CoreInit /\ CronInit /\ BeatInit /\ EdgeInit

NextHttp == PostChatTurn \/ PostChatAnswers

SpecHttp == InitHttp /\ [][NextHttp]_vars

\* ------------------------------------------- db.upsert_daily_summary
SummaryContents == {"A", "B"}

dailyFrame == <<otherFrame, wake, tgVars, dc, hindsight, http, lateVars>>

\* An INSERT without the ON CONFLICT clause, on a table without the UNIQUE
\* constraint.
ConflictsNever(tbl, summary_date) == FALSE

\* ON CONFLICT (summary_date): a row of that date is there.
Conflicts(tbl, summary_date) == \E r \in tbl : r.summary_date = summary_date

\* INSERT INTO daily_summaries (summary_date, content, updated_at) VALUES (...)
\* ON CONFLICT (summary_date) DO UPDATE SET content = EXCLUDED.content
upsert_daily_summary(tbl, id, summary_date, content) ==
    IF Conflicts(tbl, summary_date)
    THEN {IF r.summary_date = summary_date THEN [r EXCEPT !.content = content] ELSE r :
              r \in tbl}
    ELSE tbl \cup {[id |-> id, summary_date |-> summary_date, content |-> content]}

\* One call upsert_daily_summary(summary_date, content); the id sequence
\* moves on with every INSERT that is tried.
UpsertDailySummary(summary_date, content) ==
    /\ daily.seq <= MaxUpserts
    /\ daily_summaries' = upsert_daily_summary(daily_summaries, daily.seq, summary_date, content)
    /\ daily' = [daily EXCEPT !.seq = @ + 1, !.upserts[summary_date] = @ + 1,
                              !.latest[summary_date] = content]
    /\ UNCHANGED dailyFrame

InitDaily ==
    /\ messages = {}
    /\ enc = NoName
    /\ ChatInit /\ LoadInit /\ CoreInit /\ CronInit /\ BeatInit /\ EdgeInit

NextDaily ==
    \E summary_date \in SummaryDates, content \in SummaryContents :
        UpsertDailySummary(summary_date, content)

SpecDaily == InitDaily /\ [][NextDaily]_vars

\* ------------------------------- load_messages(exclude_heartbeat=True)
\* The user_display_name chat() hands on to append_messages.
DisplayNames == {NoName, "User", "heartbeat"}

\* if role == "user" and user_display_name: metadata["role_display"] = user_display_name
RoleDisplay(role, user_display_name) ==
    IF role = "user" /\ user_display_name # NoName THEN user_display_name ELSE NoName

\* The rows append_messages(thread_id, [user, assistant], user_display_name=)
\* inserts in its one transaction, at time `now`.
ExchangeRows(tbl, thread_id, user_display_name, with_reply, now) ==
    LET first == NextIdx(tbl, thread_id)
        row(i, role) ==
            [thread_id |-> thread_id, idx |-> first + i, role |-> role,
             content |-> Chars(2), reasoning |-> <<>>, created_at |-> now,
             role_display |-> RoleDisplay(role, user_display_name), src |-> now]
    IN {row(0, "user")} \cup (IF with_reply THEN {row(1, "assistant")} ELSE {})

Exchanges == {r.src : r \in messages}

\* A turn ends: chat() appends its user row and, if there is one, the reply.
AppendExchange(user_display_name, with_reply) ==
    /\ call.op = "none"
    /\ Cardinality(Exchanges) < MaxExchanges
    /\ messages' = messages \cup ExchangeRows(messages, "main", user_display_name, with_reply,
                                              Cardinality(Exchanges) + 1)
    /\ UNCHANGED <<enc, chatVars, loadVars, coreVars, cronVars, beatVars>>

\* load_messages("main", exclude_heartbeat=True)
LoadExcludingHeartbeat ==
    /\ call.op = "none"
    /\ call' = [op |-> "load_messages", limit |-> None, since |-> None, max_tokens |-> None]
    /\ ret' = load_messages(messages, "main", None, None, None, TRUE, TRUE, enc)
    /\ UNCHANGED <<messages, enc, chatVars, coreVars, cronVars, beatVars>>

InitExclude ==
    /\ messages = {}
    /\ enc = NoName
    /\ ChatInit /\ LoadInit /\ CoreInit /\ CronInit /\ BeatInit /\ EdgeInit

NextExclude ==
    \/ \E user_display_name \in DisplayNames, with_reply \in BOOLEAN :
          AppendExchange(user_display_name, with_reply)
    \/ LoadExcludingHeartbeat

SpecExclude == InitExclude /\ [][NextExclude]_vars

\* ------------------------------- core memory: concurrent transactions
\* Each core-memory call opens its own connection (get_connection) and commits
\* when its "with" block is left; PostgreSQL runs it READ COMMITTED: a statement
\* reads what is committed when it starts, and a write of a row waits for the
\* transaction that holds a write of that row.
TxBlocks == {"user"}
TxContents == {<<"A">>}
TxAdditions == {<<"x">>, <<"y">>}

CoreCalls ==
    {[op |-> "update_block", content |-> c] : c \in TxContents} \cup
    {[op |-> "append_to_block", content |-> c] : c \in TxAdditions} \cup
    {[op |-> "rollback_block", content |-> <<>>]}

txFrame == <<messages, enc, chatVars, loadVars, system_instructions, nops, ops, cronVars,
             clock, last_active, beat_turn, heartbeat, beat_op,
             wake, tgVars, dc, hindsight, http, dailyVars, reminderVars>>

\* A worker's agent calls core_memory_update, core_memory_append or
\* core_memory_rollback with a valid block type.
CoreCall(w, c, block_type) ==
    /\ conn[w].pc = "idle" /\ txops < MaxTxOps
    /\ txops' = txops + 1
    /\ conn' = [conn EXCEPT ![w] =
          [NoConn EXCEPT !.pc = IF c.op = "append_to_block" THEN "get_block" ELSE "select",
                         !.op = c.op, !.block_type = block_type, !.content = c.content,
                         !.addition = c.content]]
    /\ UNCHANGED <<core_memory, core_memory_history, history_seq, kept, txFrame>>

\* append_to_block: current = get_block(block_type), in a transaction of its
\* own, and new_content computed from it.
TxGetBlock(w) ==
    /\ conn[w].pc = "get_block"
    /\ conn' = [conn EXCEPT ![w].pc = "select",
                            ![w].content = AppendedContent(get_block(CoreDb, conn[w].block_type),
                                                           conn[w].addition)]
    /\ UNCHANGED <<core_memory, core_memory_history, history_seq, kept, txops, txFrame>>

\* The first statement of update_block (SELECT content, version FROM
\* core_memory) and of rollback_block (the newest history row, or the return
\* when there is none).
TxSelect(w) ==
    /\ conn[w].pc = "select"
    /\ LET b == conn[w].block_type
       IN IF conn[w].op = "rollback_block"
          THEN IF HistoryOf(core_memory_history, b) = {}
               THEN conn' = [conn EXCEPT ![w] = NoConn]
               ELSE LET h == HistoryNewest(core_memory_history, b)
                    IN conn' = [conn EXCEPT ![w].pc = "restore", ![w].history_id = h.id,
                                            ![w].row = [present |-> TRUE, content |-> h.content,
                                                        version |-> h.version]]
          ELSE conn' = [conn EXCEPT ![w].pc = IF core_memory[b].present THEN "save" ELSE "upsert",
                                    ![w].row = core_memory[b]]
    /\ UNCHANGED <<core_memory, core_memory_history, history_seq, kept, txops, txFrame>>

\* INSERT INTO core_memory_history ... SELECT ... FROM core_memory: the row that
\* is committed now, under the next id of the sequence.
TxSaveHistory(w) ==
    /\ conn[w].pc = "save"
    /\ LET b == conn[w].block_type
       IN conn' = [conn EXCEPT ![w].pc = "upsert",
                               ![w].inserted = {[id |-> history_seq, block_type |-> b,
                                                 content |-> core_memory[b].content,
                                                 version |-> core_memory[b].version]}]
    /\ history_seq' = history_seq + 1
    /\ UNCHANGED <<core_memory, core_memory_history, kept, txops, txFrame>>

\* No other open transaction holds a write of the block's row.
RowFree(w, block_type) ==
    \A v \in Workers \ {w} : conn[v].block_type = block_type => conn[v].written = <<>>

\* INSERT INTO core_memory ... ON CONFLICT (block_type) DO UPDATE with
\* new_version = row["version"] + 1, or 1 when the SELECT found no row.
TxUpsert(w) ==
    /\ conn[w].pc = "upsert" /\ RowFree(w, conn[w].block_type)
    /\ conn' = [conn EXCEPT ![w].pc = "commit",
                            ![w].written = <<[present |-> TRUE, content |-> conn[w].content,
                                              version |-> IF conn[w].row.present
                                                          THEN conn[w].row.version + 1 ELSE 1]>>]
    /\ UNCHANGED <<core_memory, core_memory_history, history_seq, kept, txops, txFrame>>

\* rollback_block: UPDATE core_memory SET content = prev_content, version =
\* prev_version WHERE block_type = %s
TxRestore(w) ==
    /\ conn[w].pc = "restore" /\ RowFree(w, conn[w].block_type)
    /\ conn' = [conn EXCEPT ![w].pc = "delete",
                            ![w].written = IF core_memory[conn[w].block_type].present
                                           THEN <<conn[w].row>> ELSE <<>>]
    /\ UNCHANGED <<core_memory, core_memory_history, history_seq, kept, txops, txFrame>>

\* rollback_block: DELETE FROM core_memory_history WHERE id = history_id
TxDelete(w) ==
    /\ conn[w].pc = "delete"
    /\ \A v \in Workers \ {w} : conn[w].history_id \notin conn[v].deleted
    /\ conn' = [conn EXCEPT ![w].pc = "commit", ![w].deleted = {conn[w].history_id}]
    /\ UNCHANGED <<core_memory, core_memory_history, history_seq, kept, txops, txFrame>>

\* The "with get_connection()" block is left: conn.commit().
TxCommit(w) ==
    /\ conn[w].pc = "commit"
    /\ LET b == conn[w].block_type
       IN /\ core_memory' = IF conn[w].written # <<>>
                            THEN [core_memory EXCEPT ![b] = conn[w].written[1]]
                            ELSE core_memory
          /\ core_memory_history' =
                {h \in core_memory_history \cup conn[w].inserted : h.id \notin conn[w].deleted}
          /\ kept' = [kept EXCEPT ![b] = IF conn[w].op = "append_to_block"
                                         THEN @ \cup {conn[w].addition} ELSE {}]
    /\ conn' = [conn EXCEPT ![w] = NoConn]
    /\ UNCHANGED <<history_seq, txops, txFrame>>

InitCoreTx ==
    /\ messages = {}
    /\ enc = NoName
    /\ ChatInit /\ LoadInit /\ CoreInit /\ CronInit /\ BeatInit /\ EdgeInit

NextCoreTx ==
    \/ \E w \in Workers, c \in CoreCalls, b \in TxBlocks : CoreCall(w, c, b)
    \/ \E w \in Workers : TxGetBlock(w)
    \/ \E w \in Workers : TxSelect(w)
    \/ \E w \in Workers : TxSaveHistory(w)
    \/ \E w \in Workers : TxUpsert(w)
    \/ \E w \in Workers : TxRestore(w)
    \/ \E w \in Workers : TxDelete(w)
    \/ \E w \in Workers : TxCommit(w)

SpecCoreTx == InitCoreTx /\ [][NextCoreTx]_vars

\* ------------------------------------------------- reminder_tools.py
\* "if minutes > 1440"
MaxMinutes == 1440
Minutes == {0, 1, MaxMinutes + 1}

reminderFrame == <<otherFrame, wake, tgVars, dc, hindsight, http, dailyVars, txVars>>

\* set_reminder(message, minutes) up to timer.start(): the two range tests,
\* then the timer is created, put into timer_holder and started. The entry of
\* the map is not written yet.
SetReminder(r, minutes) ==
    /\ timers[r].pc = "unset"
    /\ \A q \in ReminderIds : q < r => timers[q].pc # "unset"
    /\ timers' = [timers EXCEPT ![r].pc = IF minutes <= 0 \/ minutes > MaxMinutes
                                          THEN "rejected" ELSE "started"]
    /\ UNCHANGED <<active_reminders, listing, reminderFrame>>

\* set_reminder: with _lock: _active_reminders[timer] = message, and the return.
RegisterReminder(r) ==
    /\ timers[r].pc = "started"
    /\ active_reminders' = Append(active_reminders, r)
    /\ timers' = [timers EXCEPT ![r].pc = "set"]
    /\ UNCHANGED <<listing, reminderFrame>>

\* _active_reminders.pop(timer, None)
Popped(m, r) == SelectSeq(m, LAMBDA q : q # r)

\* The started timer expires and its thread runs _callback: _fire pops the
\* timer from the map under the lock, then shows the notification.
TimerFires(r) ==
    /\ timers[r].pc \in {"started", "set"} /\ ~timers[r].fired
    /\ active_reminders' = Popped(active_reminders, r)
    /\ timers' = [timers EXCEPT ![r].fired = TRUE]
    /\ UNCHANGED <<listing, reminderFrame>>

\* list_reminders(): the entries of the map, in order, read under the lock;
\* each with whether its timer had fired by then.
ListReminders ==
    /\ listing' = [i \in 1..Len(active_reminders) |->
                     [timer |-> active_reminders[i],
                      fired |-> timers[active_reminders[i]].fired]]
    /\ UNCHANGED <<timers, active_reminders, reminderFrame>>

InitReminder ==
    /\ messages = {}
    /\ enc = NoName
    /\ ChatInit /\ LoadInit /\ CoreInit /\ CronInit /\ BeatInit /\ EdgeInit

NextReminder ==
    \/ \E r \in ReminderIds, minutes \in Minutes : SetReminder(r, minutes)
    \/ \E r \in ReminderIds : RegisterReminder(r)
    \/ \E r \in ReminderIds : TimerFires(r)
    \/ ListReminders

SpecReminder == InitReminder /\ [][NextReminder]_vars

C19_SkipsWhenRecentlyActive ==
    (heartbeat.seen # None /\ heartbeat.at - heartbeat.seen[1] < HEARTBEAT_SKIP_WINDOW_MINUTES) =>
        /\ heartbeat.result = "user_recently_active"
        /\ heartbeat.pc = "idle"
        /\ ~heartbeat.invoked

\* A heartbeat found the user active one minute ago and skipped.
C19_Witness ==
    /\ heartbeat.result = "user_recently_active"
    /\ heartbeat.seen # None /\ heartbeat.at - heartbeat.seen[1] = 1

\* C20: a run_heartbeat called while a user turn is in progress skips.
C20_SkipsWhileUserChats ==
    heartbeat.during => heartbeat.result = "user_recently_active"

\* ------------------------------------------------------------------ C21
\* C21: a heartbeat that was not skipped has persisted a user row: the full
\* prompt if it is the first of the day, the text "HEARTBEAT" otherwise.
C21_HeartbeatRowStored ==
    (heartbeat.pc = "idle" /\ heartbeat.result \notin {NoName, "user_recently_active"}) =>
        heartbeat.user_row = (IF heartbeat.today_count = 0 THEN "prompt" ELSE "HEARTBEAT")

\* ------------------------------------------------------------------ C22
\* The hours from wake_hour up to, not including, sleep_hour, round the clock.
InWakingWindow(wake_hour, sleep_hour, hour) ==
    IF wake_hour <= sleep_hour THEN wake_hour <= hour /\ hour < sleep_hour
    ELSE hour >= wake_hour \/ hour < sleep_hour

\* C22: a tick calls run_heartbeat if the hour is inside the configured
\* waking-hours window and skips if it is outside, whatever the two hours.
C22_WakingWindowGates ==
    wake.last # "none" =>
        (wake.last = "run_heartbeat" <=> InWakingWindow(wake.wake_hour, wake.sleep_hour, wake.hour))

\* The same for the configurations with wake_hour <= sleep_hour.
C22_GatesWhenOrdered ==
    (wake.last # "none" /\ wake.wake_hour <= wake.sleep_hour) =>
        (wake.last = "run_heartbeat" <=> InWakingWindow(wake.wake_hour, wake.sleep_hour, wake.hour))

\* ------------------------------------------------------------ C23 .. C26
Arrived == 1..Len(tg_server.updates)
PassedToOrchestrator(u) == tg_done[u] \in TurnOutcomes

\* C23: no update that was pending before the listener's first getUpdates is
\* passed to chat().
C23_NoPendingReplayed ==
    \A u \in Arrived : tg_server.updates[u].pending => ~PassedToOrchestrator(u)

\* A message of the configured chat (channel), not by a bot, with a text that
\* is more than whitespace.
FromConfiguredUser(chat, bot, text) ==
    /\ chat = "target"
    /\ ~bot
    /\ \E i \in 1..Len(text) : text[i] \notin Whitespace

\* C24: a Telegram update or Discord message gets a turn (and with it rows and
\* a reply) only if it is from the configured chat, not by a bot, and has text;
\* every other one the adapter handled was dropped.
C24_OnlyConfiguredUserGetsTurns ==
    /\ \A u \in Arrived :
          LET m == tg_server.updates[u]
          IN IF FromConfiguredUser(m.chat, m.bot, m.text)
             THEN tg_done[u] # "dropped"
             ELSE tg_done[u] \in {"none", "dropped"}
    /\ IF FromConfiguredUser(dc.channel, dc.bot, dc.content)
       THEN dc.did \in TurnOutcomes
       ELSE dc.did \in {"none", "dropped"}

\* Telegram dropped a bot's message and answered the user's; Discord dropped a
\* message of another channel.
C24_Witness ==
    /\ \E u, v \in Arrived :
          /\ tg_server.updates[u].bot /\ tg_done[u] = "dropped"
          /\ tg_done[v] = "replied"
    /\ dc.channel = "other" /\ dc.did = "dropped"

\* C25: no getUpdates request is issued straight after a 409 answer, without
\* a wait in between.
C25_BacksOffAfter409 == ~tg.hot

InLoop == tg.pc \in {"poll", "handle", "sleep"}

Unavailable(h, server) ==
    ~h.installed \/ ~h.enabled \/ server \in {"unreachable", "error"}

DescriptiveStrings ==
    {"Hindsight is not available. Memory recall failed.",
     "Hindsight is not available. Reflection failed.",
     "Hindsight recall failed: e", "Hindsight reflect failed: e",
     "I don't have any memories that match that.",
     "I reflected but have nothing specific to share.",
     "From my experience with the user: ...", "text"}

ConfigurationError(e) == e.from = "agent.invoke" /\ e.text \cap AuthMarks # {}
TransientError(e) ==
    e.from = "agent.invoke" /\ e.text \cap AuthMarks = {} /\ e.text \cap RateMarks # {}

\* What chat() does with the failure: the two results, or the exception itself.
ChatSurfaces ==
    LET e == http.failure
    IN http.pc # "idle" =>
          /\ ConfigurationError(e) =>
                (http.raised.from = "chat" /\ http.raised.text = {"LLM authentication failed (401)"})
          /\ TransientError(e) =>
                (http.raised.from = "chat" /\ http.raised.text = {"LLM rate limit"})
          /\ (~ConfigurationError(e) /\ ~TransientError(e)) => http.raised = e

\* C28 as stated: 503 exactly for a configuration error, 500 for every other
\* failure.
C28_AsStated ==
    /\ ChatSurfaces
    /\ http.pc = "answered" =>
          /\ http.status = 503 <=> ConfigurationError(http.failure)
          /\ http.status = 500 <=> (http.failure # NoExc /\ ~ConfigurationError(http.failure))

\* C28: 503 exactly when chat() raised a RuntimeError, which is a
\* configuration error, a rate-limit error or a RuntimeError of the agent's
\* own; 500 for every other failure.
C28_RuntimeErrorIs503 ==
    /\ ChatSurfaces
    /\ http.pc = "answered" =>
          /\ http.status = 503 <=>
                \/ ConfigurationError(http.failure)
                \/ TransientError(http.failure)
                \/ http.failure.type = "RuntimeError"
          /\ http.status = 500 <=>
                /\ http.failure # NoExc
                /\ ~ConfigurationError(http.failure)
                /\ ~TransientError(http.failure)
                /\ http.failure.type # "RuntimeError"

\* A rate-limit failure of the LLM client was answered with 503.
C28_Witness ==
    /\ http.pc = "answered" /\ http.status = 503
    /\ http.failure.type = "APIStatusError" /\ http.failure.text = {"429"}

\* ------------------------------------------------------------------ C29
RowsOfDate(day) == {r \in daily_summaries : r.summary_date = day}

\* C29: the table holds at most one row per summary_date, none for a date
\* never upserted, and the row's content is that of the last upsert of the date.
C29_OneRowPerDate ==
    \A day \in SummaryDates :
        /\ Cardinality(RowsOfDate(day)) <= 1
        /\ daily.upserts[day] = 0 => RowsOfDate(day) = {}
        /\ daily.upserts[day] > 0 =>
              \E r \in RowsOfDate(day) : r.content = daily.latest[day]

\* One date was upserted three times, the other once in between.
C29_Witness ==
    /\ daily.upserts["2030-01-01"] = 3 /\ daily.upserts["2030-01-02"] = 1
    /\ \E r \in RowsOfDate("2030-01-01") : r.id = 1 /\ r.content = "B"
    /\ \E r \in RowsOfDate("2030-01-02") : r.id = 2

\* ------------------------------------------------------------------ C30
\* The exchanges whose user row is a heartbeat's, by the time of their
\* transaction.
HeartbeatExchanges == {r.src : r \in {q \in messages : q.role_display = "heartbeat"}}

\* C30: what load_messages returns with exclude_heartbeat=True has no row of a
\* heartbeat exchange, neither the user row nor the reply to it.
C30_HeartbeatExchangesExcluded ==
    call.op = "load_messages" =>
        \A i \in 1..Len(ret) : ret[i].created_at \notin HeartbeatExchanges

\* The heartbeat user rows themselves are left out.
C30_HeartbeatUserRowsExcluded ==
    call.op = "load_messages" =>
        \A i \in 1..Len(ret) : ret[i].role_display # "heartbeat"

\* ------------------------------------------------------------------ C10
\* The last operation, and the one before it.
LastOp == ops[Len(ops)]
PrevOp == ops[Len(ops) - 1]

AddedHistory == core_memory_history \ LastOp.pre_history

\* An update_block just succeeded: the version is the one before plus 1 and exactly
\* one history row, holding the (content, version) before, was added.
EditBumpsAndSaves ==
    /\ core_memory[LastOp.block_type].version = LastOp.pre_row.version + 1
    /\ core_memory[LastOp.block_type].content = LastOp.content
    /\ LastOp.pre_history \subseteq core_memory_history
    /\ Cardinality(AddedHistory) = 1
    /\ \A h \in AddedHistory :
          /\ h.block_type = LastOp.block_type
          /\ h.content = LastOp.pre_row.content /\ h.version = LastOp.pre_row.version

\* update_block(t, c); rollback_block(t) just ran: the rollback succeeded, the
\* block is back at the (content, version) before the update and the one history
\* row the update added is deleted.
RollbackUndoesEdit ==
    /\ LastOp.ok
    /\ core_memory[LastOp.block_type] = PrevOp.pre_row
    /\ core_memory_history = PrevOp.pre_history
    /\ Cardinality(LastOp.pre_history \ core_memory_history) = 1

JustUpdated == Len(ops) >= 1 /\ LastOp.op = "update_block" /\ LastOp.ok
UpdatedThenRolledBack ==
    /\ Len(ops) = 2 /\ PrevOp.op = "update_block" /\ PrevOp.ok
    /\ LastOp.op = "rollback_block" /\ LastOp.block_type = PrevOp.block_type

\* C10 as stated: it holds for every successful update_block, the first edit of a
\* block that has never been written included.
C10_AsStated ==
    /\ JustUpdated => EditBumpsAndSaves
    /\ UpdatedThenRolledBack => RollbackUndoesEdit

\* C10 amended: it holds for every successful update_block of a block that has a
\* row. The first edit of a block that has never been written creates the row at
\* version 1 and adds no history row, and an immediately following rollback_block
\* fails and changes nothing.
C10_EditThenRollback ==
    /\ JustUpdated =>
          IF LastOp.pre_row.present THEN EditBumpsAndSaves
          ELSE /\ core_memory[LastOp.block_type] =
                     [present |-> TRUE, content |-> LastOp.content, version |-> 1]
               /\ core_memory_history = LastOp.pre_history
    /\ UpdatedThenRolledBack =>
          IF PrevOp.pre_row.present THEN RollbackUndoesEdit
          ELSE /\ ~LastOp.ok
               /\ core_memory[LastOp.block_type] =
                     [present |-> TRUE, content |-> PrevOp.content, version |-> 1]
               /\ core_memory_history = PrevOp.pre_history

\* An edit of a block at version 2, with an older history row, was rolled back.
C10_Witness ==
    /\ UpdatedThenRolledBack /\ LastOp.ok
    /\ PrevOp.pre_row.present /\ PrevOp.pre_row.version = 2
    /\ core_memory[LastOp.block_type].version = 2
    /\ HistoryOf(core_memory_history, LastOp.block_type) # {}

\* ------------------------------------------------------------------ C11
\* k rollback_block calls in a row on the tables db: whether all succeeded, and
\* the tables afterwards.
RECURSIVE RollbackRun(_, _, _)
RollbackRun(db, block_type, k) ==
    IF k = 0 THEN [ok |-> TRUE, db |-> db]
    ELSE LET r == RollbackRun(db, block_type, k - 1)
             n == rollback_block(r.db, block_type)
         IN [ok |-> r.ok /\ n.ok, db |-> n.db]

\* The history rows of a block that are newer than h.
NewerThan(hist, h) == {g \in HistoryOf(hist, h.block_type) : g.id > h.id}

\* The row the k-th most recent edit of the block saved.
KthNewest(hist, block_type, k) ==
    CHOOSE h \in HistoryOf(hist, block_type) : Cardinality(NewerThan(hist, h)) = k - 1

\* From the tables db, k rollbacks of the block behave as k pops of a stack.
PopsLikeStack(db, block_type, k) ==
    LET hist == db.core_memory_history
        n == Cardinality(HistoryOf(hist, block_type))
        r == RollbackRun(db, block_type, k)
    IN /\ r.ok <=> n >= k
       /\ n >= k =>
            LET h == KthNewest(hist, block_type, k)
            IN /\ r.db.core_memory[block_type].content = h.content
               /\ r.db.core_memory[block_type].version = h.version
               /\ h.version = db.core_memory[block_type].version - k
               /\ r.db.core_memory_history =
                     hist \ {g \in HistoryOf(hist, block_type) : g.id >= h.id}
       /\ n < k => r.db = RollbackRun(db, block_type, n).db

JustRolledBack == Len(ops) >= 1 /\ LastOp.op = "rollback_block" /\ LastOp.block_type \in Blocks

\* C11: the history of a block is a stack. From every reachable state and for
\* every block and K, K rollbacks in a row all succeed iff the block has at
\* least K history rows; the K-th restores the (content, version) the K-th most
\* recent edit saved and leaves the block at version v - K; rollbacks beyond the
\* history fail and change nothing. And each rollback_block that ran succeeded
\* iff the block had a history row, and changed nothing when it failed.
C11_HistoryIsStack ==
    /\ \A b \in Blocks : \A k \in 1..(MaxOps + 1) :
          core_memory[b].present => PopsLikeStack(CoreDb, b, k)
    /\ \A b \in Blocks : ~core_memory[b].present => HistoryOf(core_memory_history, b) = {}
    /\ JustRolledBack =>
          /\ LastOp.ok <=> HistoryOf(LastOp.pre_history, LastOp.block_type) # {}
          /\ ~LastOp.ok => CoreDb = LastOp.pre_db
          /\ LastOp.ok => CoreDb = RollbackRun(LastOp.pre_db, LastOp.block_type, 1).db

\* Two rollbacks of one block ran in a row and took it from version 3 to 1,
\* emptying its history.
C11_Witness ==
    /\ Len(ops) = 2 /\ JustRolledBack /\ LastOp.ok
    /\ PrevOp.op = "rollback_block" /\ PrevOp.ok /\ PrevOp.block_type = LastOp.block_type
    /\ PrevOp.pre_row.version = 3
    /\ core_memory[LastOp.block_type].version = 1
    /\ HistoryOf(core_memory_history, LastOp.block_type) = {}

\* ------------------------------------------------------------------ C12
CoreOps == {"update_block", "append_to_block", "rollback_block"}

\* The last operation was one of the three with a block type outside the
\* editable ones: it returned failure and changed no table.
InvalidTypeRejected ==
    (Len(ops) >= 1 /\ LastOp.op \in CoreOps /\ LastOp.block_type \notin Blocks) =>
        /\ ~LastOp.ok
        /\ CoreDb = LastOp.pre_db
        /\ system_instructions = LastOp.pre_system_instructions

\* C12: update_block, append_to_block and rollback_block with a block type
\* outside {user, identity, ideaspace} fail and change nothing, and no operation
\* the agent can call changes system_instructions.
C12_SystemInstructionsReadOnly ==
    /\ InvalidTypeRejected
    /\ Len(ops) >= 1 => system_instructions = LastOp.pre_system_instructions

\* ------------------------------------------------------------ C13 .. C17
\* C13: every job satisfies is_one_time <=> (run_date is set and schedule_days
\* is null), and every recurring job has a non-empty schedule_days and a null
\* run_date.
C13_OneTimeIffRunDate ==
    \A j \in JobIds : cron_jobs[j].present =>
        /\ cron_jobs[j].is_one_time <=>
              (cron_jobs[j].run_date # NoName /\ cron_jobs[j].schedule_days = None)
        /\ ~cron_jobs[j].is_one_time =>
              (~NoDays(cron_jobs[j].schedule_days) /\ cron_jobs[j].run_date = NoName)

\* The execute_cron_job of the job cron_op names has just returned.
ExecDone(outcomes) == cron_op.kind = "done" /\ cron_op.outcome \in outcomes
DoneJob == cron_jobs[cron_op.id]

\* C14: when the execution of a one-time job has run its turn and returned, the
\* job (if it is still stored) has last_run_status success, a run_count one more
\* than when the trigger fired, and status paused.
C14_OneTimeRunPauses ==
    (ExecDone({"success"}) /\ cron_op.is_one_time /\ DoneJob.present) =>
        /\ DoneJob.last_run_status = "success"
        /\ DoneJob.run_count = cron_op.fired_count + 1
        /\ DoneJob.status = "paused"
        /\ RowsOf(cron_op.id) = cron_op.fired_rows + 1

C14_Witness ==
    /\ ExecDone({"success"}) /\ cron_op.is_one_time /\ DoneJob.present
    /\ DoneJob.status = "paused" /\ DoneJob.run_count = 1

C16_SchedulerMirrorsStore ==
    (cron_op.kind = "crud" /\ scheduler.running) =>
        \A j \in JobIds : Held(j) <=> (cron_jobs[j].present /\ cron_jobs[j].status = "active")

\* C17: when the turn of a cron job raises, execute_cron_job returns (the
\* exception does not leave it), the job has last_run_status = error with the
\* error text, and its status is what it was; when record_run raises too,
\* execute_cron_job still returns and the job's status is what it was.
C17_TurnErrorRecorded ==
    /\ cron_op.step = "turn raises" => ExecDone({"error", "error unrecorded"})
    /\ ExecDone({"error", "error unrecorded"}) =>
          /\ exec[cron_op.id].pc = "idle"
          /\ DoneJob.present = cron_op.present_before
          /\ DoneJob.status = cron_op.status_before
          /\ RowsOf(cron_op.id) = cron_op.fired_rows
    /\ (ExecDone({"error"}) /\ DoneJob.present) =>
          /\ DoneJob.last_run_status = "error"
          /\ DoneJob.last_run_error

C17_Witness ==
    /\ ExecDone({"error"}) /\ DoneJob.present
    /\ DoneJob.last_run_status = "error" /\ DoneJob.status = "active"

\* ------------------------------------------------------------ C31, C32
\* A run recorded as success counts: run_count is one more than at the firing.
SuccessRunCounted ==
    (ExecDone({"success"}) /\ DoneJob.present) =>
        DoneJob.run_count = cron_op.fired_count + 1

\* C31: run_count counts the executions recorded as success only: when an
\* execution has recorded skipped or error and returned, run_count is what it
\* was when the trigger fired, and a success has added one.
C31_RunCountCountsSuccesses ==
    /\ SuccessRunCounted
    /\ (ExecDone({"skipped", "error"}) /\ DoneJob.present) =>
          DoneJob.run_count = cron_op.fired_count

\* C32: once a pause or a delete of job j has completed, no "[Cron: name]" row
\* of j is appended to thread "main" until j is resumed, also when the trigger
\* had fired and execute_cron_job had read the job before the pause or delete:
\* a turn appends its row only while the job is stored with status active.
C32_NoTurnAfterPause ==
    cron_op.step = "turn" =>
        /\ RowsOf(cron_op.id) = cron_op.fired_rows + 1
        /\ cron_op.present_before /\ cron_op.status_before = "active"

\* A firing that comes after the pause or the delete appends no row.
LaterFiringAppendsNothing ==
    (cron_op.step = "read" /\ (~cron_op.present_before \/ cron_op.status_before # "active"))
        => RowsOf(cron_op.id) = cron_op.fired_rows

\* ------------------------------------------------------ C1 .. C5, C9
ThreadRows(th) == {r \in messages : r.thread_id = th}
TurnRows(t) == {r \in messages : r.src = t}

\* The rows of turn t are its tuples, in the order passed, at idx k0, k0+1, ...
PersistedInOrder(t, k0) ==
    /\ Cardinality(TurnRows(t)) = Len(to_persist[t])
    /\ \A i \in 1..Len(to_persist[t]) : \E r \in TurnRows(t) :
          /\ r.thread_id = args[t].thread_id /\ r.idx = k0 + i - 1
          /\ r.role = to_persist[t][i].role /\ r.content = to_persist[t][i].content

\* C1: for every thread the idx values are exactly 0..N-1; every row was written by
\* an append_messages call that succeeded, and each such call with k rows holds
\* exactly k rows, at successive idx values in the order they were passed (so N is
\* the sum of the k of the calls that succeeded).
C1_ContiguousIdx ==
    /\ \A th \in Threads :
          {r.idx : r \in ThreadRows(th)} = 0..(Cardinality(ThreadRows(th)) - 1)
    /\ \A r \in messages : pc[r.src] = "done"
    /\ \A t \in Turns : pc[t] = "done" =>
          \E k0 \in 0..(2 * NumTurns) : PersistedInOrder(t, k0)

\* Two calls on the same thread raced and only one of them succeeded; a third
\* state of the same kind has both succeeded one after the other.
C1_Witness ==
    \E t, u \in Turns :
        /\ t # u /\ pc[t] = "done" /\ pc[u] = "done"
        /\ args[t].thread_id = args[u].thread_id
        /\ Cardinality(ThreadRows(args[t].thread_id)) = 4

\* C2: concurrent turns on one thread whose LLM invocations succeeded both
\* complete: no turn is aborted by a (thread_id, idx) conflict.
C2_NoTurnLostToConflict == \A t \in Turns : err[t] # "UniqueViolation"

HasAIContent(msgs) == \E i \in 1..Len(msgs) : msgs[i].type = "ai" /\ msgs[i].content # <<>>

\* C3 as stated: every turn that completed appended exactly two rows, the user row
\* at idx k and the assistant row at k+1.
C3_AsStated ==
    \A t \in Turns : pc[t] = "done" =>
        \E r1, r2 \in TurnRows(t) :
            /\ TurnRows(t) = {r1, r2}
            /\ r1.role = "user" /\ r2.role = "assistant" /\ r2.idx = r1.idx + 1

\* C3 amended: a turn that completed appended its user row at idx k and, when the
\* agent's result holds an AI message with a non-empty content, one assistant row
\* at k+1; when it holds none, only the user row. Nothing else of the thread lies at
\* k or k+1.
C3_UserThenReply ==
    /\ \A t \in Turns : pc[t] \in {"invoked", "inserting"} =>
          /\ Len(to_persist[t]) = (IF HasAIContent(result[t]) THEN 2 ELSE 1)
          /\ to_persist[t][1].role = "user"
          /\ Len(to_persist[t]) = 2 => to_persist[t][2].role = "assistant"
    /\ \A t \in Turns : pc[t] = "done" =>
          \E r1 \in TurnRows(t) :
              /\ r1.role = "user"
              /\ \/ Len(to_persist[t]) = 1 /\ TurnRows(t) = {r1}
                 \/ /\ Len(to_persist[t]) = 2
                    /\ \E r2 \in TurnRows(t) :
                          /\ TurnRows(t) = {r1, r2}
                          /\ r2.role = "assistant" /\ r2.idx = r1.idx + 1
                          /\ r2.content = to_persist[t][2].content /\ r2.content # <<>>
              /\ \A r \in ThreadRows(args[t].thread_id) \ TurnRows(t) :
                    r.idx # r1.idx /\ (Len(to_persist[t]) = 2 => r.idx # r1.idx + 1)

\* A second turn on a thread appended its user row at idx 2 and its reply at idx 3.
C3_Witness ==
    \E t \in Turns :
        /\ pc[t] = "done"
        /\ \E r1, r2 \in TurnRows(t) :
              r1.role = "user" /\ r1.idx = 2 /\ r2.role = "assistant" /\ r2.idx = 3

\* C4: a turn that failed - the LLM invocation raised, or append_messages raised -
\* has no row in the messages table, and no row of it is left to be committed.
C4_FailedTurnLeavesNothing ==
    \A t \in Turns : pc[t] = "failed" => (TurnRows(t) = {} /\ txrows[t] = <<>>)

\* append_messages raised after its first INSERT, beside a turn that completed.
C4_Witness ==
    \E t, u \in Turns :
        /\ pc[t] = "failed" /\ err[t] = "OperationalError after INSERT"
        /\ pc[u] = "done" /\ args[u].thread_id = args[t].thread_id

\* C5: the message list the workflow starts from is exactly the freshly trimmed
\* history followed by the new user message (the thread's checkpoint is empty when
\* the agent is invoked).
C5_StartsFromTrimmedHistory ==
    \A t \in Turns : pc[t] \in {"invoked", "inserting"} => started[t] = invoke_state[t]

\* C9: once a turn has succeeded, its stored user row holds the user message
\* exactly as passed, and load_messages of the thread returns that content at the
\* row's place.
C9_UserMessageVerbatim ==
    \A t \in Turns : pc[t] = "done" =>
        \E r \in TurnRows(t) :
            /\ r.role = "user" /\ r.content = args[t].user_message
            /\ \A q \in TurnRows(t) : q.role = "user" => q = r
            /\ LET loaded == load_messages(messages, args[t].thread_id, None, None, None, TRUE, FALSE, enc)
               IN loaded[r.idx + 1].role = "user" /\ loaded[r.idx + 1].content = args[t].user_message

\* A message that itself begins like a timestamp prefix was stored as passed.
C9_Witness ==
    \E t \in Turns :
        /\ pc[t] = "done" /\ args[t].user_message = <<"[", "0", "]", "\n", "?">>
        /\ \E r \in TurnRows(t) : r.role = "user" /\ r.content = args[t].user_message

\* ------------------------------------------------------- C6, C7, C8
\* The thread's rows that are not tool rows, as load_messages reports them.
Log == LET sel == OrderByIdx({r \in messages : r.thread_id = "main" /\ r.role # "tool"})
       IN [i \in 1..Len(sel) |-> RowDict(sel[i])]

Suffix(s, k) == SubSeq(s, Len(s) - k + 1, Len(s))

\* C6: load_messages(limit=L, since=today_start) with no token cap returns exactly
\* max(K, min(N, L)) messages of the N non-tool messages, K of them same-day: the
\* suffix of the idx-ordered log from min(first same-day position, max(0, N-L)).
C6_WindowSize ==
    (call.op = "load_messages" /\ call.limit # None /\ call.since # None
        /\ call.max_tokens = None) =>
    LET L == call.limit[1]
        N == Len(Log)
        sameDay == {i \in 1..N : Log[i].created_at >= call.since[1]}
        K == Cardinality(sameDay)
        firstSameDay == IF sameDay = {} THEN N ELSE (CHOOSE i \in sameDay : \A j \in sameDay : i <= j) - 1
        start == Min(firstSameDay, Max(0, N - L))
    IN /\ Len(ret) = Max(K, Min(N, L))
       /\ ret = Suffix(Log, N - start)

\* A busy day (K > L) and, in another run, a quiet one (K < L < N) were loaded.
C6_Witness ==
    /\ call.op = "load_messages" /\ call.max_tokens = None
    /\ call.limit = Some(1) /\ call.since = Some(1)
    /\ Len(Log) = 3 /\ Len(ret) = 2
    /\ Log[1].created_at = 0 /\ Log[2].created_at = 1

\* C7: for every non-empty input list and every max_tokens, the token-cap trim
\* returns a non-empty list whose last element is the newest input message.
C7_TrimKeepsNewest ==
    (call.op = "trim" /\ Log # <<>>) => (ret # <<>> /\ ret[Len(ret)] = Log[Len(Log)])

\* The newest message alone exceeds max_tokens and is all that is returned.
C7_Witness ==
    /\ call.op = "trim" /\ Len(Log) >= 2 /\ Len(ret) = 1
    /\ enc = NoName
    /\ Len(TrimText(Log[Len(Log)])) \div 4 > call.max_tokens[1]

\* The sum of the last k numbers of ns.
RECURSIVE SumLast(_, _)
SumLast(ns, k) == IF k = 0 THEN 0 ELSE ns[Len(ns) - k + 1] + SumLast(ns, k - 1)

\* The longest suffix of h whose tokens sum to at most m, or the newest message
\* alone when even that exceeds m.
LongestFitting(h, m, Count(_)) ==
    LET toks == [i \in 1..Len(h) |-> Count(h[i])]
        fits == {k \in 1..Len(h) : SumLast(toks, k) <= m}
    IN IF h = <<>> THEN <<>>
       ELSE IF fits = {} THEN Suffix(h, 1)
       ELSE Suffix(h, CHOOSE k \in fits : \A j \in fits : j <= k)

FloorTokens(row) ==
    IF enc # NoName THEN TiktokenLen(TrimText(row)) ELSE Len(TrimText(row)) \div 4
CeilTokens(row) ==
    IF enc # NoName THEN TiktokenLen(TrimText(row)) ELSE (Len(TrimText(row)) + 3) \div 4

Windowed == WindowedHistory(messages, "main", call.limit, call.since, TRUE, FALSE)

\* C8 as stated: for every max_tokens >= 0 the result is the longest suffix of the
\* windowed history within max_tokens, a text of c characters counting ceil(c/4).
C8_AsStated ==
    (call.op = "load_messages" /\ call.max_tokens # None) =>
        ret = LongestFitting(Windowed, call.max_tokens[1], CeilTokens)

\* C8 amended: for every max_tokens > 0 the result is the longest suffix of the
\* windowed history whose tokens sum to at most max_tokens (the newest message alone
\* when that exceeds it), a text of c characters counting floor(c/4) without a
\* tokeniser; max_tokens = 0 applies no cap and returns the whole windowed history.
C8_LongestSuffixFloor ==
    (call.op = "load_messages" /\ call.max_tokens # None) =>
        IF call.max_tokens[1] > 0
        THEN ret = LongestFitting(Windowed, call.max_tokens[1], FloorTokens)
        ELSE ret = Windowed

\* The cap dropped the oldest message and kept two, one of them of 0 tokens.
C8_Witness ==
    /\ call.op = "load_messages" /\ call.max_tokens = Some(1) /\ enc = NoName
    /\ Len(Windowed) = 3 /\ Len(ret) = 2
    /\ \E i \in 1..2 : Len(ret[i].content) = 2

\* ------------------------------------------------------------------ C33
\* The messages of result the workflow of turn t added to what it started from.
ProducedThisTurn(t) == SubSeq(result[t], Len(started[t]) + 1, Len(result[t]))

\* The assistant tuple of to_persist, if there is one.
PersistedReply(t) == SelectSeq(to_persist[t], LAMBDA m : m.role = "assistant")

\* C33: the assistant reply a turn persists and returns is the content of an
\* AIMessage the LLM produced during that turn, never one of the messages the
\* turn started from, also when the LLM ends the turn with an empty content.
C33_ReplyIsThisTurns ==
    \A t \in Turns : pc[t] = "invoked" =>
        \A k \in 1..Len(PersistedReply(t)) :
            \E i \in 1..Len(ProducedThisTurn(t)) :
                /\ ProducedThisTurn(t)[i].type = "ai"
                /\ ProducedThisTurn(t)[i].content = PersistedReply(t)[k].content

\* When the LLM ends the turn with a non-empty content, that content is the reply.
NonEmptyReplyPersisted ==
    \A t \in Turns :
        (pc[t] = "invoked" /\ result[t][Len(result[t])].content # <<>>) =>
            /\ Len(PersistedReply(t)) = 1
            /\ PersistedReply(t)[1].content = result[t][Len(result[t])].content

\* A turn that started from its loaded history alone, ended by the LLM with an
\* empty content, persists the history's last assistant text as its reply.
HistoryReplyPersistedAgain ==
    \E t \in Turns :
        /\ pc[t] = "invoked" /\ started[t] = invoke_state[t]
        /\ result[t][Len(result[t])].content = <<>>
        /\ Len(rows[t]) >= 1 /\ rows[t][Len(rows[t])].role = "assistant"
        /\ Len(PersistedReply(t)) = 1
        /\ PersistedReply(t)[1].content = rows[t][Len(rows[t])].content

\* ------------------------------------------------------------------ C36
UpdateIds == 1..MaxUpdates

\* The updates the loop body has been entered for.
Seen == {u \in UpdateIds : tg_done[u] # "none"}

\* The updates chat() was called for.
PassedOn == {u \in UpdateIds : tg_done[u] \in TurnOutcomes}

\* The offset lies past every update the loop has seen, and the updates still
\* to be handled lie at or past it and have not been seen.
OffsetPastSeen ==
    /\ \A u \in Seen : tg.offset # None /\ u < tg.offset[1]
    /\ \A i \in 1..Len(tg.batch) :
          /\ tg.batch[i] \notin Seen
          /\ tg.offset # None => tg.batch[i] >= tg.offset[1]

\* A step never takes the offset back, and what an update ended with stays.
OffsetAdvances ==
    /\ tg.offset # None => (tg'.offset # None /\ tg'.offset[1] >= tg.offset[1])
    /\ \A u \in Seen : tg_done'[u] = tg_done[u]

\* C36: within one run of the listener the poll offset never decreases and each
\* update_id is passed to chat() at most once: the offset is past an update
\* before it is handled, so an update whose turn raised is not fetched again.
C36_OffsetNeverBack == []OffsetPastSeen /\ [][OffsetAdvances]_vars

\* A turn raised, the loop slept and polled again, and the next update got its
\* turn while the failed one was left as it was.
C36_Witness ==
    /\ tg_done[1] = "raised" /\ tg_done[2] = "replied"
    /\ tg.offset = Some(3) /\ tg.pc = "poll"

\* ------------------------------------------------------------ C34, C35
\* The live version of a block is 1 plus the number of its history rows, and
\* these carry the versions 1..version-1.
VersionCountsHistory(block_type) ==
    LET H == HistoryOf(core_memory_history, block_type)
        version == core_memory[block_type].version
    IN /\ version = 1 + Cardinality(H)
       /\ {h.version : h \in H} = 1..(version - 1)

\* C34: for each editable block with a live row, in every reachable state, also
\* under update_block and rollback_block calls that run concurrently on the
\* block, the live version is 1 plus the number of history rows of the block and
\* the history rows carry the distinct versions 1..version-1.
C34_VersionCountsHistory ==
    \A b \in Blocks : core_memory[b].present => VersionCountsHistory(b)

\* Whether the text sub occurs in text.
Contains(text, sub) ==
    \E i \in 0..(Len(text) - Len(sub)) : SubSeq(text, i + 1, i + Len(sub)) = sub

\* C35: after append_to_block calls on a block have completed, also calls of
\* turns that run concurrently, the block's content contains every addition
\* appended since the content was last replaced.
C35_AppendLosesNothing ==
    \A b \in Blocks : \A a \in kept[b] :
        core_memory[b].present /\ Contains(core_memory[b].content, a)

\* Two update_block calls read version 1 and both committed: version 2 with two
\* history rows of version 1.
BumpLostEntryDuplicated ==
    /\ core_memory["user"].version = 2
    /\ Cardinality(HistoryOf(core_memory_history, "user")) = 2
    /\ \A h \in HistoryOf(core_memory_history, "user") : h.version = 1

\* ------------------------------------------------------------------ C37
InMap(m, r) == \E i \in 1..Len(m) : m[i] = r

\* The callback of a timer whose set_reminder has returned takes its entry out
\* of the map.
FiresAfterReturn(r) ==
    (timers[r].pc = "set" /\ ~timers[r].fired /\ timers'[r].fired) =>
        (InMap(active_reminders, r) /\ ~InMap(active_reminders', r))

FiredAfterReturnRemoved == [][\A r \in ReminderIds : FiresAfterReturn(r)]_vars

\* C37: every entry of the active-reminder map belongs to a timer that has not
\* fired, and list_reminders never lists a timer that has fired, for every
\* interleaving of set_reminder, the timer callback and list_reminders.
C37_MapHoldsUnfiredTimers ==
    /\ \A i \in 1..Len(active_reminders) : ~timers[active_reminders[i]].fired
    /\ \A i \in 1..Len(listing) : ~listing[i].fired

====
